---- MODULE Spec2Model ----
(***************************************************************************)
(* Control plane of anywork: Store (tasks, task_logs, sessions), the task  *)
(* dispatcher (dispatch / handleWorkerStream / sendPushNotification), the  *)
(* cancel route and the session delete route.                              *)
(*                                                                         *)
(* Node runs one handler at a time, so an action is the code a handler     *)
(* runs between two awaits; pc[t] is the await the dispatch of t waits at. *)
(***************************************************************************)
EXTENDS Integers, Sequences, FiniteSets, TLC

\* ---------------------------------------------------------------- bounds
\* Largest value of the wall clock (seconds) the model lets now() return.
MaxClock == 2
\* Largest number of SSE frames a worker answers one /chat with.
MaxFrames == 2

TaskIds == {"t1", "t2"}
SessionIds == {"s1"}

\* SQL NULL / JS null of a text column; no text of the model equals it.
Null == "<null>"
\* A nullable INTEGER column is the empty set (NULL) or a singleton.
NoTime == {}

TerminalStatuses == {"completed", "failed", "canceled"}
\* Mutant of CancelableStatuses: a failed task may be canceled as well.
CancelableOrFailed == {"running", "pending", "input_required", "failed"}
CancelableStatuses == {"running", "pending", "input_required"}

\* Exception messages of dispatch's steps 1-4 (acquire, prepare, chat, stream).
AcquireError == "acquire failed"
PrepareError == "Worker /prepare failed"
ChatError == "Worker /chat failed"
ReadError == "stream read failed"
PersistError == "constraint failed"
DeliverError == "deliver failed"
StepErrors == {AcquireError, PrepareError, ChatError, ReadError, PersistError}

VARIABLES
  clock,        \* last value now() returned
  foreign_keys, \* whether the SQLite build enforces REFERENCES
  sessions,     \* ids of the rows of table sessions
  tasks,        \* table tasks: stored task id -> row
  task_logs,    \* table task_logs: set of rows, key (task_id, seq)
  req,          \* task id -> the TaskRecord dispatch was called with
  pc,           \* task id -> await point of its dispatch
  loc,          \* task id -> locals of handleWorkerStream / dispatch
  script,       \* task id -> frames the worker emitted for /chat
  wire,         \* task id -> tokens of the response body not yet read
  ws,           \* task id -> live subscriber: "none", "open", "closed"
  wsOut,        \* task id -> messages sent to the subscriber
  delivered,    \* task id -> number of channel.deliver invocations
  pushes,       \* task id -> push POSTs made, each with the status it carried
  cancelling,   \* task ids with a cancel handler waiting for the worker
  leftPending,  \* task ids whose status has been other than pending
  http,         \* the last response of the cancel route: task id and status code
  cluster,      \* the Kubernetes namespace: pods and services by name
  driver,       \* the K8sDriver object: options, cleanup timer, endpoint cache
  calls,        \* the driver's calls in flight: acquire, release, reaper pass
  ingress,      \* task id -> the channel and the TaskRequest the task was created from
  reply,        \* the last response of the webhook route: status code and body
  pager         \* a client of GET /tasks/:id/logs: its last query, page, and entries so far

vars == <<clock, foreign_keys, sessions, tasks, task_logs, req, pc, loc, script,
          wire, ws, wsOut, delivered, pushes, cancelling, leftPending, http,
          cluster, driver, calls, ingress, reply, pager>>

\* The state of the orchestrated driver, and the state of the rest.
driverVars == <<cluster, driver, calls>>
storeVars == <<foreign_keys, sessions, tasks, task_logs, req, pc, loc, script, wire,
               ws, wsOut, delivered, pushes, cancelling, leftPending, http,
               ingress, reply, pager>>
\* What the ingress routes record and what the log route's client holds.
clientVars == <<ingress, reply, pager>>

\* ------------------------------------------------------------ SSE framing
NL == "\n"

\* The bytes of one frame: "event: <type>\n" "data: <json>\n" "\n".
\* The data object is {"content": c}; its token is "{" c "}".
EncodeFrame(f) == <<"event:", f.type, NL, "data:", "{" \o f.content \o "}", NL, NL>>

RECURSIVE EncodeStream(_)
EncodeStream(fs) ==
  IF fs = <<>> THEN <<>> ELSE EncodeFrame(Head(fs)) \o EncodeStream(Tail(fs))

\* The frames a worker emits: text, the two terminal events, and an event of a
\* type the server does not know.
Frames ==
  { [type |-> "text", content |-> "a"], [type |-> "done", content |-> ""],
    [type |-> "error", content |-> "a"], [type |-> "ping", content |-> "a"] }

RECURSIVE SeqsUpTo(_, _)
SeqsUpTo(S, n) ==
  IF n = 0 THEN {<<>>}
  ELSE LET shorter == SeqsUpTo(S, n - 1)
       IN shorter \cup {Append(s, x) : s \in {q \in shorter : Len(q) = n - 1}, x \in S}

\* JSON.parse(dataStr).content ?? dataStr, and dataStr itself when parsing throws.
ParseContent(dataStr) ==
  CASE dataStr = "{a}" -> "a"
    [] dataStr = "{}" -> ""
    [] OTHER -> dataStr

\* buffer.split("\n"): the complete lines and the unterminated rest.
RECURSIVE SplitLines(_, _, _)
SplitLines(toks, cur, acc) ==
  IF toks = <<>> THEN [lines |-> acc, rest |-> cur]
  ELSE IF Head(toks) = NL THEN SplitLines(Tail(toks), <<>>, Append(acc, cur))
  ELSE SplitLines(Tail(toks), Append(cur, Head(toks)), acc)

\* line.slice(n).trim() of a line "<prefix> <value>": the value, or "".
LineValue(line) == IF Len(line) >= 2 THEN line[2] ELSE ""

StartsWith(line, prefix) == Len(line) >= 1 /\ line[1] = prefix

\* ------------------------------------------------------------------ Store
\* JSON.stringify of a list of names: "[" name "," name ... "]" as tokens.
RECURSIVE JsonItems(_)
JsonItems(list) ==
  IF list = <<>> THEN <<>>
  ELSE IF Len(list) = 1 THEN list
  ELSE <<Head(list), ",">> \o JsonItems(Tail(list))

JsonStringify(list) == <<"[">> \o JsonItems(list) \o <<"]">>

\* JSON.parse of such a text: the names between the brackets, commas dropped.
JsonParse(text) ==
  SelectSeq(SubSeq(text, 2, Len(text) - 1), LAMBDA tok : tok # ",")

\* INSERT INTO tasks: skills and mcp_servers hold the JSON text of the lists.
NewTask(s, skills, mcpServers, push) ==
  [session_id |-> s, status |-> "pending", skills |-> JsonStringify(skills),
   mcp_servers |-> JsonStringify(mcpServers),
   result |-> Null, error |-> Null, worker_id |-> Null,
   push_notification |-> push,
   started_at |-> NoTime, finished_at |-> NoTime]

\* UPDATE tasks SET <the given columns> WHERE id = t: no row, no change.
updateTask(tbl, t, updates) ==
  IF t \in DOMAIN tbl
  THEN [tbl EXCEPT ![t] =
          [c \in DOMAIN tbl[t] |->
             IF c \in DOMAIN updates THEN updates[c] ELSE tbl[t][c]]]
  ELSE tbl

\* Mutant of createTaskThrows: the insert of a task is never rejected.
createTaskNeverThrows(sess, s) == FALSE

\* Whether INSERT INTO tasks raises: session_id references sessions(id) when
\* the build enforces foreign keys.
createTaskThrows(sess, s) == foreign_keys /\ s \notin sess

\* Mutant of InsertThrows: only the primary key rejects a log row.
InsertThrowsKeyOnly(tbl, logs, t, seq) ==
  \E l \in logs : l.task_id = t /\ l.seq = seq

\* Whether INSERT INTO task_logs raises: primary key (task_id, seq), and the
\* reference to tasks(id) when the build enforces foreign keys.
InsertThrows(tbl, logs, t, seq) ==
  \/ \E l \in logs : l.task_id = t /\ l.seq = seq
  \/ foreign_keys /\ t \notin DOMAIN tbl

\* Mutant of insertTaskLog: the row is stored under a 1-based seq (`++seq`).
insertTaskLogOneBased(logs, t, seq, type, content) ==
  logs \cup {[task_id |-> t, seq |-> seq + 1, type |-> type, content |-> content]}

insertTaskLog(logs, t, seq, type, content) ==
  logs \cup {[task_id |-> t, seq |-> seq, type |-> type, content |-> content]}

LogsOf(logs, t) == {l \in logs : l.task_id = t}

\* SELECT ... WHERE task_id = t ORDER BY seq ASC
RECURSIVE OrderBySeq(_)
OrderBySeq(rows) ==
  IF rows = {} THEN <<>>
  ELSE LET first == CHOOSE l \in rows : \A m \in rows : l.seq <= m.seq
       IN <<first>> \o OrderBySeq(rows \ {first})

getTaskLogs(logs, t) == OrderBySeq(LogsOf(logs, t))

\* The default and the cap of the log route's `limit`.
DefaultLimit == 100
LimitCap == 500

\* A query parameter: absent (or not a number) is {}, the integer n is {n}.
Absent == {}

\* parseInt(q) || d: NaN and 0 are falsy.
ParseIntOr(q, d) ==
  IF q = Absent THEN d
  ELSE LET n == CHOOSE x \in q : TRUE IN IF n = 0 THEN d ELSE n

Min(a, b) == IF a < b THEN a ELSE b

\* The seq values of `rows` in ascending order.
SeqsAscending(rows) ==
  LET seqs == {l.seq : l \in rows}
  IN IF seqs = {} THEN <<>>
     ELSE LET lo == CHOOSE x \in seqs : \A y \in seqs : x <= y
              hi == CHOOSE x \in seqs : \A y \in seqs : x >= y
          IN SelectSeq([i \in 1..(hi - lo + 1) |-> lo + i - 1], LAMBDA v : v \in seqs)

\* getTaskLogs(taskId, afterSeq, limit):
\* SELECT ... WHERE task_id = ? AND seq > ? ORDER BY seq ASC LIMIT ?
\* (the seq of each row returned; SQLite takes a negative LIMIT as no limit).
getTaskLogsAfter(logs, t, afterSeq, limit) ==
  LET ordered == SeqsAscending({l \in LogsOf(logs, t) : l.seq > afterSeq})
  IN IF limit < 0 THEN ordered ELSE SubSeq(ordered, 1, Min(limit, Len(ordered)))

\* SELECT COUNT(*) FROM task_logs WHERE task_id = ?
getTaskLogCount(logs, t) == Cardinality(LogsOf(logs, t))

\* logs.length > 0 ? logs[logs.length - 1].seq < total : false
HasMore(page, total) ==
  IF Len(page) > 0 THEN page[Len(page)] < total ELSE FALSE


\* ------------------------------------------------------------- Dispatcher
\* now(): the wall clock in seconds.
now == clock

\* `lastResult || null`
OrNull(text) == IF text = "" THEN Null ELSE text

\* The message handleWorkerStream forwards to an open subscriber.
StreamMessage(tbl, t, type, content) ==
  [kind |-> "event", type |-> type, content |-> content,
   session_id |-> IF t \in DOMAIN tbl THEN tbl[t].session_id ELSE Null]

\* The two frames the catch block of dispatch sends to an open subscriber.
SyntheticFrames(t, msg) ==
  << [kind |-> "synthetic", type |-> "error", content |-> msg,
      session_id |-> req[t].session_id],
     [kind |-> "synthetic", type |-> "done", content |-> Null,
      session_id |-> req[t].session_id] >>

\* Mutant of HandleEvent: an event is persisted only while no subscriber has
\* closed (the relay stops writing once the socket is gone).
HandleEventUnlessClosed(h, t, type, content, wsState, n) ==
  IF wsState = "closed" THEN [h EXCEPT !.eventType = ""]
  ELSE IF InsertThrows(h.tasks, h.logs, t, h.seq)
  THEN [h EXCEPT !.thrown = TRUE]
  ELSE [h EXCEPT
          !.logs = insertTaskLog(h.logs, t, h.seq, type, content),
          !.seq = h.seq + 1,
          !.out = IF wsState = "open"
                  THEN Append(h.out, StreamMessage(h.tasks, t, type, content))
                  ELSE h.out,
          !.lastResult = IF type = "text" THEN h.lastResult \o content
                         ELSE h.lastResult,
          !.tasks =
             IF type = "done"
             THEN updateTask(h.tasks, t,
                    [status |-> "completed", result |-> OrNull(h.lastResult),
                     finished_at |-> {n}])
             ELSE IF type = "error"
             THEN updateTask(h.tasks, t,
                    [status |-> "failed", error |-> content, finished_at |-> {n}])
             ELSE h.tasks,
          !.eventType = ""]

\* Mutant of HandleEvent: the events of a canceled task are dropped.
HandleEventUnlessCanceled(h, t, type, content, wsState, n) ==
  IF t \in DOMAIN h.tasks /\ h.tasks[t].status = "canceled"
  THEN [h EXCEPT !.eventType = ""]
  ELSE IF InsertThrows(h.tasks, h.logs, t, h.seq)
  THEN [h EXCEPT !.thrown = TRUE]
  ELSE [h EXCEPT
          !.logs = insertTaskLog(h.logs, t, h.seq, type, content),
          !.seq = h.seq + 1,
          !.out = IF wsState = "open"
                  THEN Append(h.out, StreamMessage(h.tasks, t, type, content))
                  ELSE h.out,
          !.lastResult = IF type = "text" THEN h.lastResult \o content
                         ELSE h.lastResult,
          !.tasks =
             IF type = "done"
             THEN updateTask(h.tasks, t,
                    [status |-> "completed", result |-> OrNull(h.lastResult),
                     finished_at |-> {n}])
             ELSE IF type = "error"
             THEN updateTask(h.tasks, t,
                    [status |-> "failed", error |-> content, finished_at |-> {n}])
             ELSE h.tasks,
          !.eventType = ""]

\* Mutant of HandleEvent: the event is forwarded before it is persisted, so it
\* is forwarded also when the insert raises.
HandleEventForwardFirst(h, t, type, content, wsState, n) ==
  LET sent == IF wsState = "open"
              THEN Append(h.out, StreamMessage(h.tasks, t, type, content))
              ELSE h.out
  IN IF InsertThrows(h.tasks, h.logs, t, h.seq)
     THEN [h EXCEPT !.thrown = TRUE, !.out = sent]
     ELSE [h EXCEPT
             !.logs = insertTaskLog(h.logs, t, h.seq, type, content),
             !.seq = h.seq + 1,
             !.out = sent,
             !.lastResult = IF type = "text" THEN h.lastResult \o content
                            ELSE h.lastResult,
             !.tasks =
                IF type = "done"
                THEN updateTask(h.tasks, t,
                       [status |-> "completed", result |-> OrNull(h.lastResult),
                        finished_at |-> {n}])
                ELSE IF type = "error"
                THEN updateTask(h.tasks, t,
                       [status |-> "failed", error |-> content, finished_at |-> {n}])
                ELSE h.tasks,
             !.eventType = ""]

\* One `data:` line with a known event type: insert, forward, accumulate,
\* update the status on a terminal event type, reset eventType.
HandleEvent(h, t, type, content, wsState, n) ==
  IF InsertThrows(h.tasks, h.logs, t, h.seq)
  THEN [h EXCEPT !.thrown = TRUE]
  ELSE [h EXCEPT
          !.logs = insertTaskLog(h.logs, t, h.seq, type, content),
          !.seq = h.seq + 1,
          !.out = IF wsState = "open"
                  THEN Append(h.out, StreamMessage(h.tasks, t, type, content))
                  ELSE h.out,
          !.lastResult = IF type = "text" THEN h.lastResult \o content
                         ELSE h.lastResult,
          !.tasks =
             IF type = "done"
             THEN updateTask(h.tasks, t,
                    [status |-> "completed",
                     result |-> OrNull(h.lastResult),
                     finished_at |-> {n}])
             ELSE IF type = "error"
             THEN updateTask(h.tasks, t,
                    [status |-> "failed", error |-> content, finished_at |-> {n}])
             ELSE h.tasks,
          !.eventType = ""]

\* The body of `for (const line of lines)`.
HandleLine(h, t, line, wsState, n) ==
  IF h.thrown THEN h
  ELSE IF StartsWith(line, "event:") THEN [h EXCEPT !.eventType = LineValue(line)]
  ELSE IF StartsWith(line, "data:")
  THEN IF h.eventType = "" \/ LineValue(line) = "" THEN h
       ELSE HandleEvent(h, t, h.eventType, ParseContent(LineValue(line)), wsState, n)
  ELSE h

RECURSIVE HandleLines(_, _, _, _, _)
HandleLines(h, t, lines, wsState, n) ==
  IF lines = <<>> THEN h
  ELSE HandleLines(HandleLine(h, t, Head(lines), wsState, n), t, Tail(lines), wsState, n)

\* One turn of `while (true)` after reader.read() gave `chunk`: eventType is
\* declared inside the loop body, so every chunk starts with eventType = "".
HandleChunkOn(tbl, t, chunk, wsState, n) ==
  LET sp == SplitLines(loc[t].buffer \o chunk, <<>>, <<>>)
      h0 == [tasks |-> tbl, logs |-> task_logs, out |-> wsOut[t],
             seq |-> loc[t].seq, lastResult |-> loc[t].lastResult,
             eventType |-> "", thrown |-> FALSE]
      h == HandleLines(h0, t, sp.lines, wsState, n)
  IN [tasks |-> h.tasks, logs |-> h.logs, out |-> h.out, seq |-> h.seq,
      lastResult |-> h.lastResult, thrown |-> h.thrown, buffer |-> sp.rest]

\* The turn on the table tasks as it is.
HandleChunk(t, chunk, wsState, n) == HandleChunkOn(tasks, t, chunk, wsState, n)

\* Mutant of CatchUpdate: the catch block records the message but leaves the
\* status as it was.
CatchUpdateKeepStatus(tbl, t, msg, n) ==
  updateTask(tbl, t, [error |-> msg, finished_at |-> {n}])

\* The catch block of dispatch: status failed, error = message, finished_at.
CatchUpdate(tbl, t, msg, n) ==
  updateTask(tbl, t, [status |-> "failed", error |-> msg, finished_at |-> {n}])

\* Mutant of CatchSend: the frames are sent whatever the socket's state.
CatchSendAlways(out, t, msg, wsState) == out \o SyntheticFrames(t, msg)

\* The catch block's `if (ws && ws.readyState === ws.OPEN)`.
CatchSend(out, t, msg, wsState) ==
  IF wsState = "open" THEN out \o SyntheticFrames(t, msg) ELSE out

\* Mutant of AfterStream: deliver is called whatever the re-read status is.
AfterStreamAnyStatus(tbl, t) ==
  LET found == t \in DOMAIN tbl
      doDeliver == found /\ req[t].deliver
      doPush == found /\ tbl[t].push_notification = "url"
  IN [finished |-> IF found THEN {tbl[t]} ELSE {},
      next |-> IF doDeliver THEN "deliver" ELSE IF doPush THEN "push" ELSE "done",
      deliver |-> doDeliver,
      push |-> ~doDeliver /\ doPush]

\* Lines 74-90 up to the first await: re-read the task, then deliver, push or
\* return. deliver and the push POST are called before their await.
AfterStream(tbl, t) ==
  LET found == t \in DOMAIN tbl
      doDeliver == found /\ req[t].deliver /\ tbl[t].status = "completed"
      doPush == found /\ tbl[t].push_notification = "url"
  IN [finished |-> IF found THEN {tbl[t]} ELSE {},
      next |-> IF doDeliver THEN "deliver" ELSE IF doPush THEN "push" ELSE "done",
      deliver |-> doDeliver,
      push |-> ~doDeliver /\ doPush]

PushPost(row) == [status |-> row.status, result |-> row.result, error |-> row.error]

\* ------------------------------------------------------ orchestrated driver
\* Session ids the driver is asked for, as sequences of characters: two that
\* differ in a letter, and one that differs from the first in case only.
Keys == {<<"a">>, <<"b">>, <<"A">>}

\* String.prototype.toLowerCase on the characters of the model.
ToLowerCase(c) == CASE c = "A" -> "a" [] c = "B" -> "b" [] OTHER -> c

\* The characters the class [a-z0-9-] holds, among those of the model.
NameChars == {"a", "b", "s", "w", "1", "-"}

\* .toLowerCase(), character by character
LowerCased(str) == [i \in 1..Len(str) |-> ToLowerCase(str[i])]

\* .replace(/[^a-z0-9-]/g, "-")
ReplaceOther(str) == [i \in 1..Len(str) |-> IF str[i] \in NameChars THEN str[i] ELSE "-"]

\* .replace(/-+/g, "-")
RECURSIVE CollapseDashes(_)
CollapseDashes(str) ==
  IF Len(str) <= 1 THEN str
  ELSE IF str[1] = "-" /\ str[2] = "-" THEN CollapseDashes(Tail(str))
  ELSE <<Head(str)>> \o CollapseDashes(Tail(str))

\* .replace(/^-|-$/g, "")
TrimDash(str) ==
  LET a == IF str # <<>> /\ Head(str) = "-" THEN Tail(str) ELSE str
  IN IF a # <<>> /\ a[Len(a)] = "-" THEN SubSeq(a, 1, Len(a) - 1) ELSE a

\* .slice(0, n)
Slice(str, n) == SubSeq(str, 1, IF Len(str) < n THEN Len(str) ELSE n)

toK8sName(key) ==
  LET sanitized == TrimDash(CollapseDashes(ReplaceOther(LowerCased(key))))
  IN Slice(<<"w", "-">> \o sanitized, 63)

\* const podName = toK8sName(`s-${sessionId}`)
PodNameOf(sessionId) == toK8sName(<<"s", "-">> \o sessionId)

\* A function without / with the value at k.
Remove(f, k) == [x \in DOMAIN f \ {k} |-> f[x]]
Put(f, k, v) == [x \in DOMAIN f \cup {k} |-> IF x = k THEN v ELSE f[x]]

\* Date.now(): the wall clock in milliseconds.
DateNow == clock * 1000

NoEntry == [endpoint |-> <<>>, lastUsedAt |-> 0]
NoCluster == [pods |-> << >>, services |-> {}]
\* getContainerDriver has not constructed the driver yet.
NoDriver == [constructed |-> FALSE, idleTtlSeconds |-> 0, timer |-> FALSE, cache |-> << >>]
NoCalls ==
  [acq |-> [k \in Keys |-> [pc |-> "idle", cached |-> NoEntry, out |-> "none",
                            endpoint |-> <<>>]],
   acq2 |-> [k \in Keys |-> [pc |-> "idle", cached |-> NoEntry, out |-> "none",
                             endpoint |-> <<>>]],
   rel |-> [k \in Keys |-> [pc |-> "idle", entry |-> NoEntry]],
   reaper |-> [pc |-> "idle", now |-> 0, visited |-> {}, key |-> <<>>, entry |-> NoEntry]]

\* Promise.allSettled([deleteNamespacedPod, deleteNamespacedService])
deletePodAndService(cl, podName) ==
  [pods |-> Remove(cl.pods, podName), services |-> cl.services \ {podName}]

\* Mutant of PodReadyObserved: phase Running is enough.
PodRunningObserved(cl, podName) ==
  podName \in DOMAIN cl.pods /\ cl.pods[podName].phase = "Running"

\* waitForPodReady's test: phase Running, containerStatuses non-empty, all ready.
PodReadyObserved(cl, podName) ==
  /\ podName \in DOMAIN cl.pods
  /\ cl.pods[podName].phase = "Running"
  /\ cl.pods[podName].ready

\* GET <endpoint>/health can answer 2xx: the pod serves behind its service.
Serving(cl, podName) == PodReadyObserved(cl, podName) /\ podName \in cl.services

\* cleanupIdlePods' test: now - entry.lastUsedAt > ttlMs
IsIdle(entry, nowMs, ttlSeconds) == nowMs - entry.lastUsedAt > ttlSeconds * 1000

\* No request has been answered yet.
NoResponse == [id |-> Null, code |-> 0]

\* channel/webchat.ts: no defaults, no deliver.
webChatChannel == [type |-> "webchat", skills |-> <<>>, mcpServers |-> <<>>, deliver |-> FALSE]
\* A channel registered as docs describe: defaults of its own, and deliver.
hookChannel == [type |-> "hook", skills |-> <<"dsk">>, mcpServers |-> <<"dmcp">>,
                deliver |-> TRUE]
\* A channel without defaults, with deliver or without.
PlainChannel(deliver) ==
  [type |-> "plain", skills |-> <<>>, mcpServers |-> <<>>, deliver |-> deliver]

\* The registry: channel type -> channel.
channels == [type \in {"webchat", "hook"} |->
               IF type = "webchat" THEN webChatChannel ELSE hookChannel]
getChannel(type) == channels[type]
\* The types a request may name; "nope" is registered nowhere.
RequestTypes == {"webchat", "hook", "nope"}

\* Mutant of WebhookStatus: a request is verified before its channel is
\* looked up, so an unverified request for an unknown type is answered 401.
WebhookStatusVerifyFirst(type, verified, translated) ==
  IF ~verified THEN 401
  ELSE IF type \notin DOMAIN channels THEN 404
  ELSE IF ~translated THEN 200
  ELSE 202

\* The status code of the webhook route: unknown channel, verify false,
\* toTaskRequest null, accepted.
WebhookStatus(type, verified, translated) ==
  IF type \notin DOMAIN channels THEN 404
  ELSE IF ~verified THEN 401
  ELSE IF ~translated THEN 200
  ELSE 202

NoRequest == [type |-> Null, skills |-> <<>>, mcpServers |-> <<>>]
\* A response of the webhook route, with the request's type and what verify
\* and toTaskRequest gave for it.
NoReply == [type |-> Null, verified |-> FALSE, translated |-> FALSE, code |-> 0,
            taskId |-> Null, skipped |-> FALSE]
\* The client of the log route: the task and the query it asked last, the
\* values the route parsed from the query, the page (the seq of each entry)
\* with its hasMore flag, the entries received so far, and how many queries
\* its pull has made (0: no pull, 2: two or more).
NoPager == [id |-> Null, query |-> [after |-> {}, limit |-> {}], after |-> 0, limit |-> 0,
            logs |-> <<>>, hasMore |-> FALSE, got |-> <<>>, pulls |-> 0]

InitLoc == [seq |-> 0, buffer |-> <<>>, lastResult |-> "", exc |-> "", finished |-> {}]

LeftPendingAfter(tbl) == leftPending \cup {t \in DOMAIN tbl : tbl[t].status # "pending"}


\* ---------------------------------------------------------------- actions
Streams == SeqsUpTo(Frames, MaxFrames)

Init ==
  /\ clock = 0
  /\ foreign_keys \in BOOLEAN
  /\ sessions = {}
  /\ tasks = << >>
  /\ task_logs = {}
  /\ req = [t \in TaskIds |-> [session_id |-> Null, skills |-> JsonStringify(<<>>),
                               mcp_servers |-> JsonStringify(<<>>), deliver |-> FALSE]]
  /\ pc = [t \in TaskIds |-> "idle"]
  /\ loc = [t \in TaskIds |-> InitLoc]
  /\ script = [t \in TaskIds |-> <<>>]
  /\ wire = [t \in TaskIds |-> <<>>]
  /\ ws = [t \in TaskIds |-> "none"]
  /\ wsOut = [t \in TaskIds |-> <<>>]
  /\ delivered = [t \in TaskIds |-> 0]
  /\ pushes = [t \in TaskIds |-> <<>>]
  /\ cancelling = {}
  /\ leftPending = {}
  /\ http = NoResponse
  /\ cluster = NoCluster
  /\ driver = NoDriver
  /\ calls = NoCalls
  /\ ingress = [t \in TaskIds |-> NoRequest]
  /\ reply = NoReply
  /\ pager = NoPager

\* A second of wall-clock time passes.
Tick ==
  /\ clock < MaxClock
  /\ clock' = clock + 1
  /\ UNCHANGED <<clientVars, driverVars, http, foreign_keys, sessions, tasks, task_logs, req, pc, loc, script,
                 wire, ws, wsOut, delivered, pushes, cancelling, leftPending>>

\* Mutant of Merge: a name the defaults hold already is not added again.
MergeDeduplicated(defaults, list) ==
  defaults \o SelectSeq(list, LAMBDA x : \A i \in 1..Len(defaults) : defaults[i] # x)

\* [...defaults, ...list]
Merge(defaults, list) == defaults \o list

\* createTask(...) then dispatch(task, channel, ws) up to its first await:
\* the lists are merged with the channel's defaults and stored, and dispatch
\* gets the stored row.
StartDispatch(t, s, channel, skills, mcpServers, push) ==
  LET row == NewTask(s, Merge(channel.skills, skills),
                     Merge(channel.mcpServers, mcpServers), push)
  IN /\ tasks' = (t :> row) @@ tasks
     /\ req' = [req EXCEPT ![t] = [session_id |-> s, skills |-> row.skills,
                                   mcp_servers |-> row.mcp_servers,
                                   deliver |-> channel.deliver]]
     /\ ingress' = [ingress EXCEPT ![t] =
          [type |-> channel.type, skills |-> skills, mcpServers |-> mcpServers]]
     /\ pc' = [pc EXCEPT ![t] = "acquire"]

\* POST /api/channel/:type/webhook, steps 3 to 7, for a request the channel
\* verified and translated: merge the defaults, ensure the session, create
\* the task, start the dispatch, answer 202 with the task id.
WebhookAccepted(t, channel, s, skills, mcpServers, push) ==
  /\ pc[t] = "idle"
  /\ StartDispatch(t, s, channel, skills, mcpServers, push)
  /\ sessions' = sessions \cup {s}
  /\ reply' = [type |-> channel.type, verified |-> TRUE, translated |-> TRUE,
               code |-> 202, taskId |-> t, skipped |-> FALSE]
  /\ UNCHANGED <<pager, driverVars, http, clock, foreign_keys, task_logs, loc, script, wire,
                 ws, wsOut, delivered, pushes, cancelling, leftPending>>

\* The route for a channel without defaults, with or without deliver, and a
\* request without bridge configs.
Webhook(t, s, skills, push, deliver) ==
  WebhookAccepted(t, PlainChannel(deliver), s, skills, <<>>, push)

\* POST /api/channel/:type/webhook answered before step 3: 404, 401 or
\* 200 {ok, skipped}. Nothing is stored and no dispatch is started.
WebhookRejected(type, verified, translated) ==
  /\ WebhookStatus(type, verified, translated) # 202
  /\ reply' = [type |-> type, verified |-> verified, translated |-> translated,
               code |-> WebhookStatus(type, verified, translated),
               taskId |-> Null,
               skipped |-> WebhookStatus(type, verified, translated) = 200]
  /\ UNCHANGED <<ingress, pager, driverVars, http, clock, foreign_keys, sessions, tasks,
                 task_logs, req, pc, loc, script, wire, ws, wsOut, delivered, pushes,
                 cancelling, leftPending>>

\* handleChat with a message: mint and store a session when the frame has no
\* session_id, create the task (no push descriptor) with the lists merged
\* with webChatChannel's defaults, dispatch with the socket.
ChatWith(t, s, minted, skills, mcpServers) ==
  /\ pc[t] = "idle"
  /\ minted => s \notin sessions
  /\ ~createTaskThrows(IF minted THEN sessions \cup {s} ELSE sessions, s)
  /\ StartDispatch(t, s, webChatChannel, skills, mcpServers, Null)
  /\ sessions' = IF minted THEN sessions \cup {s} ELSE sessions
  /\ ws' = [ws EXCEPT ![t] = "open"]
  /\ wsOut' = [wsOut EXCEPT ![t] =
       IF minted
       THEN <<[kind |-> "session_created", type |-> "session_created",
               content |-> Null, session_id |-> s]>>
       ELSE <<>>]
  /\ UNCHANGED <<reply, pager, driverVars, http, clock, foreign_keys, task_logs, loc, script,
                 wire, delivered, pushes, cancelling, leftPending>>

\* A chat frame without mcp_servers.
Chat(t, s, minted, skills) == ChatWith(t, s, minted, skills, <<>>)

\* The error frame handleWebSocket / handleChat answer a rejected frame with.
RejectFrame(content) ==
  [kind |-> "reject", type |-> "error", content |-> content, session_id |-> Null]

\* Inbound frames that are rejected: text that is no JSON, and a chat frame
\* without a message.
RejectedKinds == {"json", "empty"}

\* handleWebSocket's message handler for a rejected frame, on a connection
\* that has carried no task yet (held under the id t its first task will
\* get). Invalid JSON: the error frame. A chat frame without message: the
\* session is minted and stored and session_created is sent first when the
\* frame has no session_id, then the error frame.
handleRejected(t, kind, s, minted) ==
  LET mints == kind = "empty" /\ minted
  IN /\ pc[t] = "idle"
     /\ wsOut[t] = <<>>
     /\ kind = "json" => ~minted
     /\ minted => s \notin sessions
     /\ ws' = [ws EXCEPT ![t] = "open"]
     /\ sessions' = IF mints THEN sessions \cup {s} ELSE sessions
     /\ wsOut' = [wsOut EXCEPT ![t] =
          (IF mints
           THEN <<[kind |-> "session_created", type |-> "session_created",
                   content |-> Null, session_id |-> s]>>
           ELSE <<>>)
          \o <<RejectFrame(IF kind = "json" THEN "Invalid JSON" ELSE "Empty message")>>]
     /\ UNCHANGED <<clientVars, driverVars, http, clock, foreign_keys, tasks, task_logs,
                    req, pc, loc, script, wire, delivered, pushes, cancelling,
                    leftPending>>

\* The subscriber goes away.
WsClose(t) ==
  /\ ws[t] = "open"
  /\ ws' = [ws EXCEPT ![t] = "closed"]
  /\ UNCHANGED <<clientVars, driverVars, http, clock, foreign_keys, sessions, tasks, task_logs, req, pc, loc, script,
                 wire, wsOut, delivered, pushes, cancelling, leftPending>>

\* An exception reaches the catch block of dispatch while it waits at `at`.
Raise(t, at, msg) ==
  /\ pc[t] = at
  /\ tasks' = CatchUpdate(tasks, t, msg, now)
  /\ leftPending' = LeftPendingAfter(CatchUpdate(tasks, t, msg, now))
  /\ wsOut' = [wsOut EXCEPT ![t] = CatchSend(wsOut[t], t, msg, ws[t])]
  /\ pc' = [pc EXCEPT ![t] = "done"]
  /\ loc' = [loc EXCEPT ![t].exc = msg]
  /\ UNCHANGED <<clientVars, driverVars, http, clock, foreign_keys, sessions, task_logs, req, script, wire, ws,
                 delivered, pushes, cancelling>>

\* Mutant of NeedsPrepare: only the skills decide.
NeedsPrepareSkillsOnly(task) == Len(JsonParse(task.skills)) > 0

\* skills.length > 0 || mcpServers.length > 0, both parsed from the task
\* record dispatch was called with.
NeedsPrepare(task) ==
  Len(JsonParse(task.skills)) > 0 \/ Len(JsonParse(task.mcp_servers)) > 0

RunningUpdate(tbl, t, n) ==
  updateTask(tbl, t, [status |-> "running", worker_id |-> "w", started_at |-> {n}])

\* driver.getWorkerEndpoint resolved: status running, worker_id, started_at.
AcquireOk(t) ==
  /\ pc[t] = "acquire"
  /\ tasks' = RunningUpdate(tasks, t, now)
  /\ leftPending' = LeftPendingAfter(RunningUpdate(tasks, t, now))
  /\ pc' = [pc EXCEPT ![t] = IF NeedsPrepare(req[t]) THEN "prepare" ELSE "chat"]
  /\ UNCHANGED <<clientVars, driverVars, http, clock, foreign_keys, sessions, task_logs, req, loc, script, wire, ws,
                 wsOut, delivered, pushes, cancelling>>

AcquireFail(t) == Raise(t, "acquire", AcquireError)

\* /prepare answered 2xx.
PrepareOk(t) ==
  /\ pc[t] = "prepare"
  /\ pc' = [pc EXCEPT ![t] = "chat"]
  /\ UNCHANGED <<clientVars, driverVars, http, clock, foreign_keys, sessions, tasks, task_logs, req, loc, script, wire,
                 ws, wsOut, delivered, pushes, cancelling, leftPending>>

PrepareFail(t) == Raise(t, "prepare", PrepareError)

\* /chat answered 2xx with a body: the worker's frames are on the wire.
ChatOk(t, frames) ==
  /\ pc[t] = "chat"
  /\ pc' = [pc EXCEPT ![t] = "stream"]
  /\ script' = [script EXCEPT ![t] = frames]
  /\ wire' = [wire EXCEPT ![t] = EncodeStream(frames)]
  /\ UNCHANGED <<clientVars, driverVars, http, clock, foreign_keys, sessions, tasks, task_logs, req, loc, ws, wsOut,
                 delivered, pushes, cancelling, leftPending>>

ChatFail(t) == Raise(t, "chat", ChatError)

\* The steps of dispatch after handleWorkerStream returned with table `tbl`.
Finish(t, tbl) ==
  LET a == AfterStream(tbl, t)
  IN /\ tasks' = tbl
     /\ leftPending' = LeftPendingAfter(tbl)
     /\ pc' = [pc EXCEPT ![t] = a.next]
     /\ loc' = [loc EXCEPT ![t].finished = a.finished]
     /\ delivered' = [delivered EXCEPT ![t] = IF a.deliver THEN @ + 1 ELSE @]
     /\ pushes' = [pushes EXCEPT ![t] =
          IF a.push THEN Append(@, PushPost(tbl[t])) ELSE @]

\* /chat answered 2xx without a body: completed at once, then deliver / push.
ChatOkNoBody(t) ==
  /\ pc[t] = "chat"
  /\ Finish(t, updateTask(tasks, t, [status |-> "completed", finished_at |-> {now}]))
  /\ UNCHANGED <<clientVars, driverVars, http, clock, foreign_keys, sessions, task_logs, req, script, wire, ws, wsOut,
                 cancelling>>

\* reader.read() gave the next k tokens of the body.
ReadChunk(t, k) ==
  /\ pc[t] = "stream"
  /\ k \in 1..Len(wire[t])
  /\ LET r == HandleChunk(t, SubSeq(wire[t], 1, k), ws[t], now)
         tbl == IF r.thrown THEN CatchUpdate(r.tasks, t, PersistError, now)
                ELSE r.tasks
     IN /\ tasks' = tbl
        /\ leftPending' = LeftPendingAfter(tbl)
        /\ task_logs' = r.logs
        /\ wsOut' = [wsOut EXCEPT ![t] =
             IF r.thrown THEN CatchSend(r.out, t, PersistError, ws[t]) ELSE r.out]
        /\ loc' = [loc EXCEPT ![t].seq = r.seq, ![t].buffer = r.buffer,
                              ![t].lastResult = r.lastResult,
                              ![t].exc = IF r.thrown THEN PersistError ELSE @]
        /\ pc' = [pc EXCEPT ![t] = IF r.thrown THEN "done" ELSE "stream"]
  /\ wire' = [wire EXCEPT ![t] = SubSeq(@, k + 1, Len(@))]
  /\ UNCHANGED <<clientVars, driverVars, http, clock, foreign_keys, sessions, req, script, ws, delivered, pushes,
                 cancelling>>

\* Mutant of FallbackUpdate: the end of the stream updates nothing.
FallbackUpdateNever(tbl, t, lastResult, n) == tbl

\* The fallback at the end of the stream: completed when still running.
FallbackUpdate(tbl, t, lastResult, n) ==
  IF t \in DOMAIN tbl /\ tbl[t].status = "running"
  THEN updateTask(tbl, t,
         [status |-> "completed", result |-> OrNull(lastResult), finished_at |-> {n}])
  ELSE tbl

\* reader.read() reported the end of the body: the fallback, then deliver / push.
ReadEnd(t) ==
  /\ pc[t] = "stream"
  /\ wire[t] = <<>>
  /\ Finish(t, FallbackUpdate(tasks, t, loc[t].lastResult, now))
  /\ UNCHANGED <<clientVars, driverVars, http, clock, foreign_keys, sessions, task_logs, req, script, wire, ws, wsOut,
                 cancelling>>

ReadFail(t) == Raise(t, "stream", ReadError)

\* channel.deliver resolved: the push POST, if the re-read task has a descriptor.
DeliverOk(t) ==
  /\ pc[t] = "deliver"
  /\ LET doPush == \E row \in loc[t].finished : row.push_notification = "url"
     IN /\ pc' = [pc EXCEPT ![t] = IF doPush THEN "push" ELSE "done"]
        /\ pushes' = [pushes EXCEPT ![t] =
             IF doPush THEN Append(@, PushPost(CHOOSE row \in loc[t].finished : TRUE))
             ELSE @]
  /\ UNCHANGED <<clientVars, driverVars, http, clock, foreign_keys, sessions, tasks, task_logs, req, loc, script, wire,
                 ws, wsOut, delivered, cancelling, leftPending>>

\* channel.deliver rejected: the rejection reaches the catch block of dispatch.
DeliverThrows(t) == Raise(t, "deliver", DeliverError)

\* The push POST returned, or failed and sendPushNotification caught the failure.
PushReturn(t, ok) ==
  /\ pc[t] = "push"
  /\ pc' = [pc EXCEPT ![t] = "done"]
  /\ loc' = [loc EXCEPT ![t].exc = IF ok THEN @ ELSE "push failed (caught)"]
  /\ UNCHANGED <<clientVars, driverVars, http, clock, foreign_keys, sessions, tasks, task_logs, req, script, wire, ws,
                 wsOut, delivered, pushes, cancelling, leftPending>>

\* -------------------------------------------------------- cancel and delete
CancelUpdate(tbl, t, n) ==
  updateTask(tbl, t, [status |-> "canceled", finished_at |-> {n}])

\* POST /tasks/:id/cancel on a task without worker_id: no await before the update.
CancelDirect(t) ==
  /\ t \in DOMAIN tasks
  /\ tasks[t].status \in CancelableStatuses
  /\ tasks[t].worker_id = Null
  /\ tasks' = CancelUpdate(tasks, t, now)
  /\ leftPending' = LeftPendingAfter(CancelUpdate(tasks, t, now))
  /\ http' = [id |-> t, code |-> 200]
  /\ UNCHANGED <<clientVars, driverVars, clock, foreign_keys, sessions, task_logs, req, pc, loc, script, wire, ws,
                 wsOut, delivered, pushes, cancelling>>

\* POST /tasks/:id/cancel on a task with worker_id: the status check passes and
\* the handler waits for the driver and the worker's /cancel.
CancelBegin(t) ==
  /\ t \in DOMAIN tasks
  /\ tasks[t].status \in CancelableStatuses
  /\ tasks[t].worker_id # Null
  /\ t \notin cancelling
  /\ cancelling' = cancelling \cup {t}
  /\ UNCHANGED <<clientVars, driverVars, http, clock, foreign_keys, sessions, tasks, task_logs, req, pc, loc, script,
                 wire, ws, wsOut, delivered, pushes, leftPending>>

\* The worker call returned or failed (swallowed): the update to canceled.
CancelEnd(t) ==
  /\ t \in cancelling
  /\ cancelling' = cancelling \ {t}
  /\ tasks' = CancelUpdate(tasks, t, now)
  /\ leftPending' = LeftPendingAfter(CancelUpdate(tasks, t, now))
  /\ http' = [id |-> t, code |-> 200]
  /\ UNCHANGED <<clientVars, driverVars, clock, foreign_keys, sessions, task_logs, req, pc, loc, script, wire, ws,
                 wsOut, delivered, pushes>>

\* The status the cancel route answers a request for task t with, before any
\* await: 404 for an unknown id, 409 for a status that cannot be canceled.
CancelCheck(tbl, t) ==
  IF t \notin DOMAIN tbl THEN 404
  ELSE IF tbl[t].status \notin CancelableStatuses THEN 409
  ELSE 200

\* POST /tasks/:id/cancel answered 404 or 409: the handler returns at once.
CancelReject(t) ==
  /\ CancelCheck(tasks, t) # 200
  /\ http' = [id |-> t, code |-> CancelCheck(tasks, t)]
  /\ UNCHANGED <<clientVars, driverVars, clock, foreign_keys, sessions, tasks, task_logs, req, pc, loc, script,
                 wire, ws, wsOut, delivered, pushes, cancelling, leftPending>>

\* DELETE /api/sessions/:id: the logs of the session's tasks, the tasks, the session.
DeleteSession(s) ==
  LET gone == {t \in DOMAIN tasks : tasks[t].session_id = s}
  IN /\ s \in sessions \/ gone # {}
     /\ task_logs' = {l \in task_logs : l.task_id \notin gone}
     /\ tasks' = [t \in DOMAIN tasks \ gone |-> tasks[t]]
     /\ sessions' = sessions \ {s}
     /\ UNCHANGED <<clientVars, driverVars, http, clock, foreign_keys, req, pc, loc, script, wire, ws, wsOut, delivered,
                    pushes, cancelling, leftPending>>

\* GET /tasks/:id/logs?after=qa&limit=ql for a stored task, asked by a client
\* that holds the entries `got` already: the page and its hasMore flag.
LogsRoute(t, qa, ql, got, pulls) ==
  /\ t \in DOMAIN tasks
  /\ LET after == ParseIntOr(qa, 0)
         limit == Min(ParseIntOr(ql, DefaultLimit), LimitCap)
         page == getTaskLogsAfter(task_logs, t, after, limit)
     IN pager' = [id |-> t, query |-> [after |-> qa, limit |-> ql],
                  after |-> after, limit |-> limit, logs |-> page,
                  hasMore |-> HasMore(page, getTaskLogCount(task_logs, t)),
                  got |-> got \o page, pulls |-> pulls]
  /\ UNCHANGED <<ingress, reply, driverVars, http, clock, foreign_keys, sessions, tasks,
                 task_logs, req, pc, loc, script, wire, ws, wsOut, delivered, pushes,
                 cancelling, leftPending>>

\* A single query with any parameters.
GetLogs(t, qa, ql) == LogsRoute(t, qa, ql, <<>>, 0)

\* A client starts to pull the log of t: after=0.
PullFirst(t, ql) == LogsRoute(t, {0}, ql, <<>>, 1)

\* The client repeats the query with after = the last seq it received.
PullNext(ql) ==
  /\ pager.pulls > 0
  /\ pager.got # <<>>
  /\ LogsRoute(pager.id, {pager.got[Len(pager.got)]}, ql, pager.got, Min(pager.pulls + 1, 2))

\* ------------------------------------------------- orchestrated driver steps
\* new K8sDriver(opts): the options, an empty cache, and the cleanup timer
\* when idleTtlSeconds > 0.
NewK8sDriver(ttl) ==
  /\ ~driver.constructed
  /\ driver' = [constructed |-> TRUE, idleTtlSeconds |-> ttl, timer |-> ttl > 0,
                cache |-> << >>]
  /\ UNCHANGED <<clock, storeVars, cluster, calls>>

\* Two calls of getWorkerEndpoint may be in flight for one session: c names
\* the call, "acq" or "acq2".
AcquireCalls == {"acq", "acq2"}

\* The acquire c of session k ends: out is "endpoint" or "error".
AcquireEnds(c, k, out, endpoint) ==
  calls' = [calls EXCEPT ![c][k] = [pc |-> "idle", cached |-> NoEntry, out |-> out,
                                    endpoint |-> endpoint]]

AcquireGoes(c, k, to) == calls' = [calls EXCEPT ![c][k].pc = to]

\* getWorkerEndpoint(k) up to its first await: the health probe of the cached
\* endpoint, or reconcilePod's read of the pod.
getWorkerEndpoint(c, k) ==
  /\ driver.constructed
  /\ calls[c][k].pc = "idle"
  /\ calls' = [calls EXCEPT ![c][k] =
       IF k \in DOMAIN driver.cache
       THEN [pc |-> "health", cached |-> driver.cache[k], out |-> "none", endpoint |-> <<>>]
       ELSE [pc |-> "readPod", cached |-> NoEntry, out |-> "none", endpoint |-> <<>>]]
  /\ UNCHANGED <<clock, storeVars, cluster, driver>>

\* isHealthy answered: true only if the pod serves. On true the cached entry's
\* lastUsedAt is refreshed and its endpoint returned; on false reconcilePod.
HealthReturn(c, k, ok) ==
  /\ calls[c][k].pc = "health"
  /\ ok => Serving(cluster, calls[c][k].cached.endpoint)
  /\ IF ok
     THEN /\ AcquireEnds(c, k, "endpoint", calls[c][k].cached.endpoint)
          /\ driver' = [driver EXCEPT !.cache =
               IF k \in DOMAIN @ THEN Put(@, k, [@[k] EXCEPT !.lastUsedAt = DateNow])
               ELSE @]
     ELSE AcquireGoes(c, k, "readPod") /\ UNCHANGED driver
  /\ UNCHANGED <<clock, storeVars, cluster>>

\* Mutant of ReadPod: only a Running pod is reused, a Pending one is replaced.
ReadPodRunningOnly(c, k) ==
  /\ calls[c][k].pc = "readPod"
  /\ LET podName == PodNameOf(k)
     IN IF podName \notin DOMAIN cluster.pods THEN AcquireGoes(c, k, "createPod")
        ELSE IF cluster.pods[podName].phase = "Running"
        THEN AcquireGoes(c, k, "readSvc")
        ELSE AcquireGoes(c, k, "deleteOld")
  /\ UNCHANGED <<clock, storeVars, cluster, driver>>

\* reconcilePod: readNamespacedPod answered. Running or Pending: ensureService;
\* another phase: deletePodAndService; 404: createPod.
ReadPod(c, k) ==
  /\ calls[c][k].pc = "readPod"
  /\ LET podName == PodNameOf(k)
     IN IF podName \notin DOMAIN cluster.pods THEN AcquireGoes(c, k, "createPod")
        ELSE IF cluster.pods[podName].phase \in {"Running", "Pending"}
        THEN AcquireGoes(c, k, "readSvc")
        ELSE AcquireGoes(c, k, "deleteOld")
  /\ UNCHANGED <<clock, storeVars, cluster, driver>>

\* reconcilePod: the deletes of the pod in a terminal phase settled.
DeleteOld(c, k) ==
  /\ calls[c][k].pc = "deleteOld"
  /\ cluster' = deletePodAndService(cluster, PodNameOf(k))
  /\ AcquireGoes(c, k, "createPod")
  /\ UNCHANGED <<clock, storeVars, driver>>

\* createPod: createNamespacedPod answered, 409 when the name is taken.
createPod(c, k) ==
  /\ calls[c][k].pc = "createPod"
  /\ LET podName == PodNameOf(k)
     IN IF podName \in DOMAIN cluster.pods
        THEN AcquireEnds(c, k, "error", <<>>) /\ UNCHANGED cluster
        ELSE /\ AcquireGoes(c, k, "readSvc")
             /\ cluster' = [cluster EXCEPT !.pods =
                  Put(@, podName, [phase |-> "Pending", ready |-> FALSE])]
  /\ UNCHANGED <<clock, storeVars, driver>>

\* ensureService: readNamespacedService answered.
ReadService(c, k) ==
  /\ calls[c][k].pc = "readSvc"
  /\ AcquireGoes(c, k, IF PodNameOf(k) \in cluster.services THEN "wait" ELSE "createSvc")
  /\ UNCHANGED <<clock, storeVars, cluster, driver>>

\* ensureService: createNamespacedService answered, 409 when the name is taken.
CreateService(c, k) ==
  /\ calls[c][k].pc = "createSvc"
  /\ LET podName == PodNameOf(k)
     IN IF podName \in cluster.services
        THEN AcquireEnds(c, k, "error", <<>>) /\ UNCHANGED cluster
        ELSE /\ AcquireGoes(c, k, "wait")
             /\ cluster' = [cluster EXCEPT !.services = @ \cup {podName}]
  /\ UNCHANGED <<clock, storeVars, driver>>

\* waitForPodReady: a poll that ends the wait. A terminal phase raises; a ready
\* pod returns, and getWorkerEndpoint stores the entry and returns the endpoint.
WaitPoll(c, k) ==
  /\ calls[c][k].pc = "wait"
  /\ LET podName == PodNameOf(k)
     IN \/ /\ podName \in DOMAIN cluster.pods
           /\ cluster.pods[podName].phase \in {"Failed", "Succeeded"}
           /\ AcquireEnds(c, k, "error", <<>>)
           /\ UNCHANGED driver
        \/ /\ PodReadyObserved(cluster, podName)
           /\ AcquireEnds(c, k, "endpoint", podName)
           /\ driver' = [driver EXCEPT !.cache =
                Put(@, k, [endpoint |-> podName, lastUsedAt |-> DateNow])]
  /\ UNCHANGED <<clock, storeVars, cluster>>

\* waitForPodReady: the deadline passed without a ready pod having been seen.
WaitTimeout(c, k) ==
  /\ calls[c][k].pc = "wait"
  /\ ~PodReadyObserved(cluster, PodNameOf(k))
  /\ AcquireEnds(c, k, "error", <<>>)
  /\ UNCHANGED <<clock, storeVars, cluster, driver>>

\* releaseWorker(k) with a cached entry, up to `await deletePodAndService`.
releaseWorker(k) ==
  /\ driver.constructed
  /\ calls.rel[k].pc = "idle"
  /\ k \in DOMAIN driver.cache
  /\ calls' = [calls EXCEPT !.rel[k] = [pc |-> "deleting", entry |-> driver.cache[k]]]
  /\ UNCHANGED <<clock, storeVars, cluster, driver>>

\* releaseWorker: the deletes settled, then cache.delete(k).
ReleaseDone(k) ==
  /\ calls.rel[k].pc = "deleting"
  /\ cluster' = deletePodAndService(cluster, calls.rel[k].entry.endpoint)
  /\ driver' = [driver EXCEPT !.cache = Remove(@, k)]
  /\ calls' = [calls EXCEPT !.rel[k] = [pc |-> "idle", entry |-> NoEntry]]
  /\ UNCHANGED <<clock, storeVars>>

\* The cleanup timer fires: cleanupIdlePods takes `now` and starts the loop.
cleanupIdlePods ==
  /\ driver.timer
  /\ calls.reaper.pc = "idle"
  /\ calls' = [calls EXCEPT !.reaper = [pc |-> "loop", now |-> DateNow, visited |-> {},
                                        key |-> <<>>, entry |-> NoEntry]]
  /\ UNCHANGED <<clock, storeVars, cluster, driver>>

\* The loop reaches the entry of k: an idle entry is deleted (up to the await),
\* another is passed over.
ReaperVisit(k) ==
  /\ calls.reaper.pc = "loop"
  /\ k \in DOMAIN driver.cache \ calls.reaper.visited
  /\ calls' = [calls EXCEPT !.reaper =
       IF IsIdle(driver.cache[k], @.now, driver.idleTtlSeconds)
       THEN [@ EXCEPT !.pc = "deleting", !.key = k, !.entry = driver.cache[k]]
       ELSE [@ EXCEPT !.visited = @ \cup {k}]]
  /\ UNCHANGED <<clock, storeVars, cluster, driver>>

\* The deletes of the idle entry's pod settled, then cache.delete(key).
ReaperDeleted ==
  /\ calls.reaper.pc = "deleting"
  /\ cluster' = deletePodAndService(cluster, calls.reaper.entry.endpoint)
  /\ driver' = [driver EXCEPT !.cache = Remove(@, calls.reaper.key)]
  /\ calls' = [calls EXCEPT !.reaper =
       [@ EXCEPT !.pc = "loop", !.visited = @ \cup {calls.reaper.key},
                 !.key = <<>>, !.entry = NoEntry]]
  /\ UNCHANGED <<clock, storeVars>>

\* The loop has passed every entry of the cache.
ReaperEnd ==
  /\ calls.reaper.pc = "loop"
  /\ DOMAIN driver.cache \subseteq calls.reaper.visited
  /\ calls' = [calls EXCEPT !.reaper = NoCalls.reaper]
  /\ UNCHANGED <<clock, storeVars, cluster, driver>>

\* The kubelet: a pending pod runs, a running pod's containers get ready, a
\* pod fails.
PodRuns(podName) ==
  /\ podName \in DOMAIN cluster.pods
  /\ cluster.pods[podName].phase = "Pending"
  /\ cluster' = [cluster EXCEPT !.pods[podName].phase = "Running"]
  /\ UNCHANGED <<clock, storeVars, driver, calls>>

PodGetsReady(podName) ==
  /\ podName \in DOMAIN cluster.pods
  /\ cluster.pods[podName].phase = "Running"
  /\ ~cluster.pods[podName].ready
  /\ cluster' = [cluster EXCEPT !.pods[podName].ready = TRUE]
  /\ UNCHANGED <<clock, storeVars, driver, calls>>

PodFails(podName) ==
  /\ podName \in DOMAIN cluster.pods
  /\ cluster.pods[podName].phase \in {"Pending", "Running"}
  /\ cluster' = [cluster EXCEPT !.pods[podName] = [phase |-> "Failed", ready |-> FALSE]]
  /\ UNCHANGED <<clock, storeVars, driver, calls>>

\* ----------------------------------------------------------- specifications
SkillLists == {<<>>, <<"sk">>}
\* push_notification column: NULL, or a descriptor with its webhookUrl.
PushDescriptors == {Null, "url"}

\* Positions of the body at which a read may end: after any token, or only
\* after a line end.
AnyCut(t) == 1..Len(wire[t])
LineCut(t) == {k \in 1..Len(wire[t]) : wire[t][k] = NL}

\* The frames of the types the server knows.
KnownFrames == {f \in Frames : f.type # "ping"}
KnownStreams == SeqsUpTo(KnownFrames, MaxFrames)

\* The whole control plane for one task at one instant of the clock; reads
\* end at line ends.
Next ==
  \/ \E s \in SessionIds, sk \in SkillLists, p \in PushDescriptors, d \in BOOLEAN :
        Webhook("t1", s, sk, p, d)
  \/ \E s \in SessionIds, m \in BOOLEAN, sk \in SkillLists : Chat("t1", s, m, sk)
  \/ WsClose("t1")
  \/ AcquireOk("t1")
  \/ AcquireFail("t1")
  \/ PrepareOk("t1")
  \/ PrepareFail("t1")
  \/ \E fs \in KnownStreams : ChatOk("t1", fs)
  \/ ChatOkNoBody("t1")
  \/ ChatFail("t1")
  \/ \E k \in LineCut("t1") : ReadChunk("t1", k)
  \/ ReadEnd("t1")
  \/ ReadFail("t1")
  \/ DeliverOk("t1")
  \/ DeliverThrows("t1")
  \/ \E ok \in BOOLEAN : PushReturn("t1", ok)
  \/ CancelDirect("t1")
  \/ CancelBegin("t1")
  \/ CancelEnd("t1")
  \/ CancelReject("t1")
  \/ \E s \in SessionIds : DeleteSession(s)

Spec == Init /\ [][Next]_vars

\* The stream relay: a task of either ingress, every stream of up to MaxFrames
\* frames read in chunks that end at line ends, a subscriber that may close,
\* and the deletion of the session.
NextLog ==
  \/ \E s \in SessionIds : Webhook("t1", s, <<>>, Null, FALSE)
  \/ \E s \in SessionIds, m \in BOOLEAN : Chat("t1", s, m, <<>>)
  \/ WsClose("t1")
  \/ AcquireOk("t1")
  \/ \E fs \in Streams : ChatOk("t1", fs)
  \/ \E k \in LineCut("t1") : ReadChunk("t1", k)
  \/ ReadEnd("t1")
  \/ \E s \in SessionIds : DeleteSession(s)

SpecLog == Init /\ [][NextLog]_vars

\* The framing alone: one webhook task, every stream of up to MaxFrames frames,
\* read in chunks that end after any token.
NextStream ==
  \/ \E s \in SessionIds : Webhook("t1", s, <<>>, Null, FALSE)
  \/ AcquireOk("t1")
  \/ \E fs \in Streams : ChatOk("t1", fs)
  \/ \E k \in AnyCut("t1") : ReadChunk("t1", k)
  \/ ReadEnd("t1")

SpecStream == Init /\ [][NextStream]_vars

\* The failure paths of dispatch: every step may raise, deliver may throw, the
\* push may fail, and the session may be deleted under a running stream.
NextFail ==
  \/ \E s \in SessionIds, sk \in SkillLists, p \in PushDescriptors, d \in BOOLEAN :
        Webhook("t1", s, sk, p, d)
  \/ AcquireOk("t1")
  \/ AcquireFail("t1")
  \/ PrepareOk("t1")
  \/ PrepareFail("t1")
  \/ \E fs \in KnownStreams : ChatOk("t1", fs)
  \/ ChatOkNoBody("t1")
  \/ ChatFail("t1")
  \/ \E k \in LineCut("t1") : ReadChunk("t1", k)
  \/ ReadEnd("t1")
  \/ ReadFail("t1")
  \/ DeliverOk("t1")
  \/ DeliverThrows("t1")
  \/ \E ok \in BOOLEAN : PushReturn("t1", ok)
  \/ \E s \in SessionIds : DeleteSession(s)

SpecFail == Init /\ [][NextFail]_vars

\* The store under a build that enforces foreign keys (the default of the
\* SQLite build that better-sqlite3 bundles; getDb sets no foreign_keys pragma).
InitEnforced == Init /\ foreign_keys

\* The streams of text frames that end with done or with the end of the body.
PlainStreams == {fs \in KnownStreams : \A i \in 1..Len(fs) :
                   fs[i].type = "text" \/ (fs[i].type = "done" /\ i = Len(fs))}

\* Both ingresses and the deletion of the session against a dispatch that
\* streams: a webhook task t1, whose stream is followed to its end, and a
\* duplex task t2 arrive in any order, before or after a deletion.
NextStore ==
  \/ \E s \in SessionIds : Webhook("t1", s, <<>>, Null, FALSE)
  \/ \E s \in SessionIds, m \in BOOLEAN : Chat("t2", s, m, <<>>)
  \/ \E t \in TaskIds : AcquireOk(t)
  \/ \E fs \in PlainStreams : ChatOk("t1", fs)
  \/ \E k \in LineCut("t1") : ReadChunk("t1", k)
  \/ ReadEnd("t1")
  \/ \E s \in SessionIds : DeleteSession(s)

SpecStore == InitEnforced /\ [][NextStore]_vars

\* Idle TTLs (seconds) a driver is constructed with: 0 disables the reaper.
IdleTtls == {0, 1}

\* The orchestrated driver for one session against the cluster and the clock:
\* an acquire, a release and the reaper passes interleave at their awaits.
\* (The store plays no part; it stays as constructed.)
NextDriver ==
  \/ Tick
  \/ \E ttl \in IdleTtls : NewK8sDriver(ttl)
  \/ getWorkerEndpoint("acq", <<"a">>)
  \/ \E ok \in BOOLEAN : HealthReturn("acq", <<"a">>, ok)
  \/ ReadPod("acq", <<"a">>)
  \/ DeleteOld("acq", <<"a">>)
  \/ createPod("acq", <<"a">>)
  \/ ReadService("acq", <<"a">>)
  \/ CreateService("acq", <<"a">>)
  \/ WaitPoll("acq", <<"a">>)
  \/ WaitTimeout("acq", <<"a">>)
  \/ releaseWorker(<<"a">>)
  \/ ReleaseDone(<<"a">>)
  \/ cleanupIdlePods
  \/ ReaperVisit(<<"a">>)
  \/ ReaperDeleted
  \/ ReaperEnd
  \/ PodRuns(PodNameOf(<<"a">>))
  \/ PodGetsReady(PodNameOf(<<"a">>))
  \/ PodFails(PodNameOf(<<"a">>))

SpecDriver == InitEnforced /\ [][NextDriver]_vars

\* The driver as the repository runs it: releaseWorker has no caller, so the
\* acquires of one session meet only the reaper passes and the kubelet.
NextReap ==
  \/ Tick
  \/ \E ttl \in IdleTtls : NewK8sDriver(ttl)
  \/ getWorkerEndpoint("acq", <<"a">>)
  \/ \E ok \in BOOLEAN : HealthReturn("acq", <<"a">>, ok)
  \/ ReadPod("acq", <<"a">>)
  \/ DeleteOld("acq", <<"a">>)
  \/ createPod("acq", <<"a">>)
  \/ ReadService("acq", <<"a">>)
  \/ CreateService("acq", <<"a">>)
  \/ WaitPoll("acq", <<"a">>)
  \/ WaitTimeout("acq", <<"a">>)
  \/ cleanupIdlePods
  \/ ReaperVisit(<<"a">>)
  \/ ReaperDeleted
  \/ ReaperEnd
  \/ PodRuns(PodNameOf(<<"a">>))
  \/ PodGetsReady(PodNameOf(<<"a">>))
  \/ PodFails(PodNameOf(<<"a">>))

SpecReap == InitEnforced /\ [][NextReap]_vars

\* Two acquires of one session in flight together, on a cluster whose pods
\* start and get ready: no failure, no timeout, no release and no reaper.
NextTwin ==
  \/ NewK8sDriver(0)
  \/ \E c \in AcquireCalls : getWorkerEndpoint(c, <<"a">>)
  \/ \E c \in AcquireCalls, ok \in BOOLEAN : HealthReturn(c, <<"a">>, ok)
  \/ \E c \in AcquireCalls : ReadPod(c, <<"a">>)
  \/ \E c \in AcquireCalls : createPod(c, <<"a">>)
  \/ \E c \in AcquireCalls : ReadService(c, <<"a">>)
  \/ \E c \in AcquireCalls : CreateService(c, <<"a">>)
  \/ \E c \in AcquireCalls : WaitPoll(c, <<"a">>)
  \/ PodRuns(PodNameOf(<<"a">>))
  \/ PodGetsReady(PodNameOf(<<"a">>))

SpecTwin == InitEnforced /\ [][NextTwin]_vars

\* The session id of a stored session as the driver gets it, in characters.
SessionKey(s) == IF s = "s1" THEN <<"a">> ELSE <<"b">>

\* The webhook route for a channel without defaults or deliver, on the
\* orchestrated driver: the task is created and dispatch runs up to the first
\* await inside driver.getWorkerEndpoint(task.session_id), the call "acq" of
\* the task's session.
DispatchOnDriver(t, s) ==
  LET k == SessionKey(s)
  IN /\ pc[t] = "idle"
     /\ driver.constructed
     /\ calls.acq[k].pc = "idle"
     /\ StartDispatch(t, s, PlainChannel(FALSE), <<>>, <<>>, Null)
     /\ sessions' = sessions \cup {s}
     /\ reply' = [type |-> "plain", verified |-> TRUE, translated |-> TRUE,
                  code |-> 202, taskId |-> t, skipped |-> FALSE]
     /\ calls' = [calls EXCEPT !.acq[k] =
          IF k \in DOMAIN driver.cache
          THEN [pc |-> "health", cached |-> driver.cache[k], out |-> "none",
                endpoint |-> <<>>]
          ELSE [pc |-> "readPod", cached |-> NoEntry, out |-> "none", endpoint |-> <<>>]]
     /\ UNCHANGED <<pager, cluster, driver, http, clock, foreign_keys, task_logs, loc,
                    script, wire, ws, wsOut, delivered, pushes, cancelling, leftPending>>

\* waitForPodReady saw the pod ready: getWorkerEndpoint caches the endpoint
\* and returns it, and dispatch goes on at once: status running, worker_id,
\* started_at, then the POST of /prepare or /chat.
AcquiredOnDriver(t) ==
  LET k == SessionKey(req[t].session_id)
      podName == PodNameOf(k)
  IN /\ pc[t] = "acquire"
     /\ calls.acq[k].pc = "wait"
     /\ PodReadyObserved(cluster, podName)
     /\ AcquireEnds("acq", k, "endpoint", podName)
     /\ driver' = [driver EXCEPT !.cache =
          Put(@, k, [endpoint |-> podName, lastUsedAt |-> DateNow])]
     /\ tasks' = RunningUpdate(tasks, t, now)
     /\ leftPending' = LeftPendingAfter(RunningUpdate(tasks, t, now))
     /\ pc' = [pc EXCEPT ![t] = IF NeedsPrepare(req[t]) THEN "prepare" ELSE "chat"]
     /\ UNCHANGED <<clientVars, cluster, http, clock, foreign_keys, sessions, task_logs,
                    req, loc, script, wire, ws, wsOut, delivered, pushes, cancelling>>

\* A dispatch on the orchestrated driver: the task borrows the endpoint of
\* its session's pod and streams from it while the clock advances and the
\* reaper passes.
NextBorrow ==
  \/ Tick
  \/ \E ttl \in IdleTtls : NewK8sDriver(ttl)
  \/ \E s \in SessionIds : DispatchOnDriver("t1", s)
  \/ ReadPod("acq", <<"a">>)
  \/ createPod("acq", <<"a">>)
  \/ ReadService("acq", <<"a">>)
  \/ CreateService("acq", <<"a">>)
  \/ PodRuns(PodNameOf(<<"a">>))
  \/ PodGetsReady(PodNameOf(<<"a">>))
  \/ AcquiredOnDriver("t1")
  \/ \E fs \in PlainStreams : ChatOk("t1", fs)
  \/ \E k \in LineCut("t1") : ReadChunk("t1", k)
  \/ ReadEnd("t1")
  \/ cleanupIdlePods
  \/ ReaperVisit(<<"a">>)
  \/ ReaperDeleted
  \/ ReaperEnd

SpecBorrow == InitEnforced /\ [][NextBorrow]_vars

\* Session ids that differ in the case of a letter only.
CaseKeys == {<<"a">>, <<"A">>}

\* Acquire and release for two sessions whose ids differ in case, with pods
\* that start and get ready; no reaper and no failure.
NextNames ==
  \/ NewK8sDriver(0)
  \/ \E k \in CaseKeys : getWorkerEndpoint("acq", k)
  \/ \E k \in CaseKeys, ok \in BOOLEAN : HealthReturn("acq", k, ok)
  \/ \E k \in CaseKeys : ReadPod("acq", k)
  \/ \E k \in CaseKeys : createPod("acq", k)
  \/ \E k \in CaseKeys : ReadService("acq", k)
  \/ \E k \in CaseKeys : CreateService("acq", k)
  \/ \E k \in CaseKeys : WaitPoll("acq", k)
  \/ \E k \in CaseKeys : releaseWorker(k)
  \/ \E k \in CaseKeys : ReleaseDone(k)
  \/ \E k \in CaseKeys : PodRuns(PodNameOf(k))
  \/ \E k \in CaseKeys : PodGetsReady(PodNameOf(k))

SpecNames == InitEnforced /\ [][NextNames]_vars

\* Bridge-config lists of a request.
McpLists == {<<>>, <<"mcp">>}

\* The webhook route for every channel type and every outcome of verify and
\* toTaskRequest, and the dispatch of the accepted task with every way it ends.
NextHook ==
  \/ \E type \in RequestTypes, v \in BOOLEAN, tr \in BOOLEAN : WebhookRejected(type, v, tr)
  \/ \E type \in DOMAIN channels, s \in SessionIds, sk \in SkillLists, mcp \in McpLists,
        p \in PushDescriptors :
        WebhookAccepted("t1", getChannel(type), s, sk, mcp, p)
  \/ AcquireOk("t1")
  \/ AcquireFail("t1")
  \/ PrepareOk("t1")
  \/ PrepareFail("t1")
  \/ \E fs \in PlainStreams : ChatOk("t1", fs)
  \/ ChatOkNoBody("t1")
  \/ ChatFail("t1")
  \/ \E k \in LineCut("t1") : ReadChunk("t1", k)
  \/ ReadEnd("t1")
  \/ ReadFail("t1")
  \/ DeliverOk("t1")
  \/ DeliverThrows("t1")
  \/ \E ok \in BOOLEAN : PushReturn("t1", ok)

SpecHook == Init /\ [][NextHook]_vars

\* Request lists that repeat a name of the hook channel's defaults.
RepeatingSkillLists == {<<>>, <<"sk">>, <<"dsk", "sk">>}
RepeatingMcpLists == {<<>>, <<"dmcp">>}

\* Task creation on both ingresses: a webhook task t1 on either channel and a
\* duplex task t2, with lists that repeat the defaults, then the first steps
\* of their dispatches and the deletion of the session.
NextMerge ==
  \/ \E type \in DOMAIN channels, s \in SessionIds, sk \in RepeatingSkillLists,
        mcp \in RepeatingMcpLists :
        WebhookAccepted("t1", getChannel(type), s, sk, mcp, Null)
  \/ \E s \in SessionIds, m \in BOOLEAN, sk \in RepeatingSkillLists,
        mcp \in RepeatingMcpLists :
        ChatWith("t2", s, m, sk, mcp)
  \/ \E t \in TaskIds : AcquireOk(t)
  \/ \E t \in TaskIds : PrepareOk(t)
  \/ \E s \in SessionIds : DeleteSession(s)

SpecMerge == Init /\ [][NextMerge]_vars

\* `limit` parameters of a client that pulls a log.
PullLimits == {Absent, {1}}

\* A client pulls the log of a task while its stream is read and afterwards.
NextPull ==
  \/ \E s \in SessionIds : Webhook("t1", s, <<>>, Null, FALSE)
  \/ AcquireOk("t1")
  \/ \E fs \in PlainStreams : ChatOk("t1", fs)
  \/ \E k \in LineCut("t1") : ReadChunk("t1", k)
  \/ ReadEnd("t1")
  \/ \E ql \in PullLimits : PullFirst("t1", ql)
  \/ \E ql \in PullLimits : PullNext(ql)

SpecPull == InitEnforced /\ [][NextPull]_vars

\* Numbers of entries of a finished task's log: none, a few, more than the
\* default limit, more than the cap.
LogSizes == {0, 2, DefaultLimit + 1, LimitCap + 2}
\* The log a stream of n text events leaves: seq 0 .. n-1.
StoredLog(t, n) ==
  {[task_id |-> t, seq |-> i, type |-> "text", content |-> "a"] : i \in 0..(n - 1)}
\* The row of a task whose stream has ended.
CompletedTask(s) ==
  [NewTask(s, <<>>, <<>>, Null) EXCEPT !.status = "completed", !.result = "a",
                                       !.worker_id = "w", !.started_at = {0},
                                       !.finished_at = {0}]

\* The store after the dispatch of task t1 has completed with a log of one
\* of the sizes.
InitPage ==
  /\ clock = 0
  /\ foreign_keys = TRUE
  /\ sessions = {"s1"}
  /\ tasks = ("t1" :> CompletedTask("s1"))
  /\ task_logs \in {StoredLog("t1", n) : n \in LogSizes}
  /\ req = [t \in TaskIds |-> [session_id |-> IF t = "t1" THEN "s1" ELSE Null,
                               skills |-> JsonStringify(<<>>),
                               mcp_servers |-> JsonStringify(<<>>), deliver |-> FALSE]]
  /\ pc = [t \in TaskIds |-> IF t = "t1" THEN "done" ELSE "idle"]
  /\ loc = [t \in TaskIds |->
              IF t = "t1"
              THEN [InitLoc EXCEPT !.seq = getTaskLogCount(task_logs, "t1"),
                                   !.finished = {CompletedTask("s1")}]
              ELSE InitLoc]
  /\ script = [t \in TaskIds |-> <<>>]
  /\ wire = [t \in TaskIds |-> <<>>]
  /\ ws = [t \in TaskIds |-> "none"]
  /\ wsOut = [t \in TaskIds |-> <<>>]
  /\ delivered = [t \in TaskIds |-> 0]
  /\ pushes = [t \in TaskIds |-> <<>>]
  /\ cancelling = {}
  /\ leftPending = {"t1"}
  /\ http = NoResponse
  /\ cluster = NoCluster
  /\ driver = NoDriver
  /\ calls = NoCalls
  /\ ingress = [t \in TaskIds |->
                  IF t = "t1" THEN [NoRequest EXCEPT !.type = "plain"] ELSE NoRequest]
  /\ reply = [type |-> "plain", verified |-> TRUE, translated |-> TRUE, code |-> 202,
              taskId |-> "t1", skipped |-> FALSE]
  /\ pager = NoPager

\* Values of the `after` and `limit` query parameters.
AfterParams == {Absent, {0}, {-1}, {1}, {LimitCap}}
LimitParams == {Absent, {0}, {-1}, {1}, {LimitCap}, {LimitCap + 1}, {LimitCap + 100}}

\* Single queries of the log of a finished task, with every parameter.
NextPage ==
  \E qa \in AfterParams, ql \in LimitParams : GetLogs("t1", qa, ql)

SpecPage == InitPage /\ [][NextPage]_vars

\* A dispatch and cancel requests while the clock advances.
NextClock ==
  \/ Tick
  \/ \E s \in SessionIds : Webhook("t1", s, <<>>, Null, FALSE)
  \/ AcquireOk("t1")
  \/ AcquireFail("t1")
  \/ \E fs \in PlainStreams : ChatOk("t1", fs)
  \/ \E k \in LineCut("t1") : ReadChunk("t1", k)
  \/ ReadEnd("t1")
  \/ CancelDirect("t1")
  \/ CancelBegin("t1")
  \/ CancelEnd("t1")

SpecClock == InitEnforced /\ [][NextClock]_vars

\* A stream that is read while cancel requests for its task are handled.
NextLate ==
  \/ \E s \in SessionIds : Webhook("t1", s, <<>>, Null, FALSE)
  \/ AcquireOk("t1")
  \/ \E fs \in KnownStreams : ChatOk("t1", fs)
  \/ \E k \in LineCut("t1") : ReadChunk("t1", k)
  \/ ReadEnd("t1")
  \/ CancelBegin("t1")
  \/ CancelEnd("t1")

SpecLate == InitEnforced /\ [][NextLate]_vars

\* The duplex ingress: a chat frame with or without session_id, a subscriber
\* that may close, every stream of known frames, every step that may raise,
\* and the deletion of the session.
NextDuplex ==
  \/ \E s \in SessionIds, m \in BOOLEAN, sk \in SkillLists : Chat("t1", s, m, sk)
  \/ WsClose("t1")
  \/ AcquireOk("t1")
  \/ AcquireFail("t1")
  \/ PrepareOk("t1")
  \/ PrepareFail("t1")
  \/ \E fs \in KnownStreams : ChatOk("t1", fs)
  \/ ChatOkNoBody("t1")
  \/ ChatFail("t1")
  \/ \E k \in LineCut("t1") : ReadChunk("t1", k)
  \/ ReadEnd("t1")
  \/ ReadFail("t1")
  \/ \E s \in SessionIds : DeleteSession(s)

SpecDuplex == InitEnforced /\ [][NextDuplex]_vars

\* The duplex ingress with rejected frames: one connection sends a frame
\* that is rejected, another a chat frame whose task is dispatched.
NextReject ==
  \/ \E kind \in RejectedKinds, s \in SessionIds, m \in BOOLEAN :
        handleRejected("t2", kind, s, m)
  \/ \E s \in SessionIds, m \in BOOLEAN : Chat("t1", s, m, <<>>)
  \/ AcquireOk("t1")
  \/ \E fs \in PlainStreams : ChatOk("t1", fs)
  \/ \E k \in LineCut("t1") : ReadChunk("t1", k)
  \/ ReadEnd("t1")
  \/ \E s \in SessionIds : DeleteSession(s)

SpecReject == InitEnforced /\ [][NextReject]_vars

\* A step of the dispatch of t: the call it awaits returns or fails, or the
\* body gives a chunk, ends or fails.
DispatchStep(t) ==
  \/ AcquireOk(t)
  \/ AcquireFail(t)
  \/ PrepareOk(t)
  \/ PrepareFail(t)
  \/ \E fs \in PlainStreams : ChatOk(t, fs)
  \/ ChatOkNoBody(t)
  \/ ChatFail(t)
  \/ \E k \in LineCut(t) : ReadChunk(t, k)
  \/ ReadEnd(t)
  \/ ReadFail(t)
  \/ DeliverOk(t)
  \/ DeliverThrows(t)
  \/ \E ok \in BOOLEAN : PushReturn(t, ok)

\* A dispatch with every way its steps can end, against cancel requests.
NextLive ==
  \/ \E p \in PushDescriptors, d \in BOOLEAN : Webhook("t1", "s1", <<"sk">>, p, d)
  \/ DispatchStep("t1")
  \/ CancelDirect("t1")
  \/ CancelBegin("t1")
  \/ CancelEnd("t1")

\* Every call dispatch awaits returns or fails in the end, and the body of
\* the stream ends or fails in the end: the dispatch is not left at an await
\* forever.
SpecLive == InitEnforced /\ [][NextLive]_vars /\ WF_vars(DispatchStep("t1"))

\* The cancel route against a dispatch: a webhook task on a channel with or
\* without deliver, acquire that may fail, every stream of known frames, and
\* cancel requests and the deletion of the session at any moment.
NextCancel ==
  \/ \E s \in SessionIds, d \in BOOLEAN : Webhook("t1", s, <<>>, Null, d)
  \/ AcquireOk("t1")
  \/ AcquireFail("t1")
  \/ \E fs \in KnownStreams : ChatOk("t1", fs)
  \/ ChatOkNoBody("t1")
  \/ \E k \in LineCut("t1") : ReadChunk("t1", k)
  \/ ReadEnd("t1")
  \/ DeliverOk("t1")
  \/ DeliverThrows("t1")
  \/ CancelDirect("t1")
  \/ CancelBegin("t1")
  \/ CancelEnd("t1")
  \/ CancelReject("t1")
  \/ \E s \in SessionIds : DeleteSession(s)

SpecCancel == Init /\ [][NextCancel]_vars


\* ------------------------------------------------------------------ claims
Stored(t) == t \in DOMAIN tasks
StoredAcross(t) == t \in DOMAIN tasks /\ t \in DOMAIN tasks'

\* The (type, content) of the log entries of t in seq order.
Persisted(t) ==
  LET rows == getTaskLogs(task_logs, t)
  IN [i \in 1..Len(rows) |-> <<rows[i].type, rows[i].content>>]

RECURSIVE EventsOf(_)
EventsOf(out) ==
  IF out = <<>> THEN <<>>
  ELSE IF Head(out).kind = "event"
  THEN <<<<Head(out).type, Head(out).content>>>> \o EventsOf(Tail(out))
  ELSE EventsOf(Tail(out))

\* The (type, content) of the stream events forwarded to the subscriber of t.
Forwarded(t) == EventsOf(wsOut[t])

RECURSIVE IsSubsequence(_, _)
IsSubsequence(a, b) ==
  IF a = <<>> THEN TRUE
  ELSE IF b = <<>> THEN FALSE
  ELSE IF Head(a) = Head(b) THEN IsSubsequence(Tail(a), Tail(b))
  ELSE IsSubsequence(a, Tail(b))

\* A step of handleWorkerStream of t that handles events or the end of the
\* stream without raising.
StreamStep(t) ==
  /\ pc[t] = "stream"
  /\ loc'[t].exc = ""
  /\ wire'[t] # wire[t] \/ pc'[t] # "stream"

C2_CancelSticky ==
  [][\A t \in TaskIds :
       (StoredAcross(t) /\ tasks[t].status = "canceled" /\ StreamStep(t))
         => tasks'[t].status = "canceled"]_vars

\* C3 as stated: an update of a task whose status is terminal changes none of
\* its fields.
C3_TerminalImmutable ==
  [][\A t \in TaskIds :
       (StoredAcross(t) /\ tasks[t].status \in TerminalStatuses)
         => tasks'[t] = tasks[t]]_vars

\* C4 as stated: once a done or error event of the stream has been handled,
\* the events that follow in the same stream leave status, result, error and
\* finished_at unchanged.
C4_OneTransition ==
  [][\A t \in TaskIds :
       (/\ StoredAcross(t)
        /\ StreamStep(t)
        /\ \E l \in LogsOf(task_logs, t) : l.type \in {"done", "error"})
         => /\ tasks'[t].status = tasks[t].status
            /\ tasks'[t].result = tasks[t].result
            /\ tasks'[t].error = tasks[t].error
            /\ tasks'[t].finished_at = tasks[t].finished_at]_vars

\* C5 as stated: started_at is set iff the status has ever been other than
\* pending, and finished_at is set iff the status is terminal.
C5_Timestamps ==
  \A t \in DOMAIN tasks :
    /\ (tasks[t].started_at # NoTime) <=> (t \in leftPending)
    /\ (tasks[t].finished_at # NoTime) <=> (tasks[t].status \in TerminalStatuses)

\* C6 as stated: when channel.deliver or the push POST returns or fails for a
\* completed task, the status stays completed and result and error are kept.
C6_DeliveryErrorsKept ==
  [][\A t \in TaskIds :
       (/\ StoredAcross(t)
        /\ tasks[t].status = "completed"
        /\ pc[t] \in {"deliver", "push"}
        /\ pc'[t] # pc[t])
         => /\ tasks'[t].status = "completed"
            /\ tasks'[t].result = tasks[t].result
            /\ tasks'[t].error = tasks[t].error]_vars

\* C7: when acquire, prepare, the chat POST or the stream handling raises, the
\* catch block leaves the stored task failed with error = the exception
\* message and finished_at set and ends the dispatch, and no deliver and no
\* push POST is ever made for that task.
C7_DispatchFailure ==
  /\ [](\A t \in TaskIds :
          loc[t].exc \in StepErrors
            => pc[t] = "done" /\ delivered[t] = 0 /\ pushes[t] = <<>>)
  /\ [][\A t \in TaskIds :
          (loc[t].exc = "" /\ loc'[t].exc \in StepErrors /\ t \in DOMAIN tasks')
            => /\ tasks'[t].status = "failed"
               /\ tasks'[t].error = loc'[t].exc
               /\ tasks'[t].finished_at # NoTime]_vars

\* Scenario S3: /prepare answered 500.
C7_Witness ==
  \E t \in DOMAIN tasks :
    /\ loc[t].exc = PrepareError
    /\ tasks[t].status = "failed"
    /\ tasks[t].error = PrepareError
    /\ req[t].deliver
    /\ tasks[t].push_notification = "url"

\* C8: what a read of the stream persists (log entries, task row, seq and
\* accumulated text) is what the same read persists with no subscriber
\* attached, whatever the state of the subscriber.
C8_SubscriberIndependent ==
  [][\A t \in TaskIds :
       (pc[t] = "stream" /\ wire'[t] # wire[t])
         => LET k == Len(wire[t]) - Len(wire'[t])
                r == HandleChunk(t, SubSeq(wire[t], 1, k), "none", now)
            IN /\ task_logs' = r.logs
               /\ ~r.thrown => tasks' = r.tasks
               /\ loc'[t].seq = r.seq
               /\ loc'[t].lastResult = r.lastResult
               /\ r.thrown <=> loc'[t].exc = PersistError]_vars

\* The subscriber closed mid-stream and later events were still persisted.
C8_Witness ==
  \E t \in DOMAIN tasks :
    /\ ws[t] = "closed"
    /\ pc[t] = "done"
    /\ tasks[t].status = "completed"
    /\ Len(Forwarded(t)) = 1
    /\ Len(Persisted(t)) = 2

\* C9: the stream events forwarded to the subscriber of a stored task are, in
\* order, a subsequence of its log entries in seq order, and every event is
\* in the log when it is forwarded.
C9_ForwardedInLogOrder ==
  /\ [](\A t \in DOMAIN tasks : IsSubsequence(Forwarded(t), Persisted(t)))
  /\ [][\A t \in TaskIds :
          \A i \in (Len(wsOut[t]) + 1)..Len(wsOut'[t]) :
            wsOut'[t][i].kind = "event"
              => \E l \in LogsOf(task_logs', t) :
                   l.type = wsOut'[t][i].type /\ l.content = wsOut'[t][i].content]_vars

C9_Witness ==
  \E t \in DOMAIN tasks : Len(Forwarded(t)) >= 2 /\ Forwarded(t) = Persisted(t)

\* C10 as stated: when the stream has been read to its end, the (type,
\* content) of the log entries are those of the frames the worker emitted, in
\* order, however the body was cut into chunks.
C10_LogEqualsStream ==
  \A t \in DOMAIN tasks :
    (pc[t] = "done" /\ loc[t].exc = "")
      => Persisted(t) =
           [i \in 1..Len(script[t]) |-> <<script[t][i].type, script[t][i].content>>]

\* C11: channel.deliver is invoked at most once for a task, in the step in
\* which the worker stream has ended (or /chat had no body), and the task
\* re-read in that step has status completed.
C11_DeliverOnceCompleted ==
  /\ [](\A t \in TaskIds : delivered[t] <= 1)
  /\ [][\A t \in TaskIds :
          delivered'[t] # delivered[t]
            => /\ delivered[t] = 0 /\ delivered'[t] = 1
               /\ (pc[t] = "stream" /\ wire[t] = <<>>) \/ pc[t] = "chat"
               /\ t \in DOMAIN tasks'
               /\ tasks'[t].status = "completed"]_vars

\* deliver was invoked for a task that a cancel request had been made for.
C11_Witness ==
  \E t \in DOMAIN tasks :
    /\ delivered[t] = 1
    /\ pc[t] = "deliver"
    /\ tasks[t].status = "completed"
    /\ t \in cancelling

\* C12 as stated: a stored task with a push descriptor whose dispatch ended
\* without an exception in acquire, prepare, chat or the stream has exactly one
\* push POST, and the POST carries a terminal status; no task has two.
C12_PushExactlyOnce ==
  \A t \in TaskIds :
    /\ Len(pushes[t]) <= 1
    /\ (/\ t \in DOMAIN tasks
        /\ pc[t] = "done"
        /\ loc[t].exc \notin StepErrors
        /\ tasks[t].push_notification = "url")
         => /\ Len(pushes[t]) = 1
            /\ pushes[t][1].status \in TerminalStatuses

\* C13: a cancel request handled while the task is completed, failed or
\* canceled is answered 409, starts no worker call and changes no row; a
\* request for an id that is not stored is answered 404 and changes no row.
\* (A step that shrinks `cancelling` ends a request that began earlier.)
C13_CancelRejected ==
  [][\A t \in TaskIds :
       LET terminal == t \in DOMAIN tasks /\ tasks[t].status \in TerminalStatuses
           unknown == t \notin DOMAIN tasks
           answered == http' # http /\ http'.id = t /\ cancelling' = cancelling
       IN /\ (terminal \/ unknown) => ~(t \in cancelling' /\ t \notin cancelling)
          /\ (terminal /\ answered)
               => http'.code = 409 /\ tasks' = tasks /\ task_logs' = task_logs
          /\ (unknown /\ answered)
               => http'.code = 404 /\ tasks' = tasks /\ task_logs' = task_logs]_vars

\* A cancel request for a canceled task was answered 409.
C13_Witness ==
  \E t \in DOMAIN tasks :
    http = [id |-> t, code |-> 409] /\ tasks[t].status = "canceled"

\* C14 as stated: a canceled task has error = NULL and a failed task has an
\* error text.
C14_ErrorMatchesStatus ==
  \A t \in DOMAIN tasks :
    /\ tasks[t].status = "canceled" => tasks[t].error = Null
    /\ tasks[t].status = "failed" => tasks[t].error # Null

\* C15: while a session is not stored, no task of that session is stored and
\* no log entry of a task that was created for that session is stored, whatever
\* a dispatch that was streaming when the session was deleted does afterwards.
C15_DeleteCascades ==
  \A s \in SessionIds :
    s \notin sessions
      => /\ \A t \in DOMAIN tasks : tasks[t].session_id # s
         /\ \A l \in task_logs : req[l.task_id].session_id # s

\* The session was deleted under a running stream that had persisted events,
\* and the next event of the stream was refused.
C15_Witness ==
  \E t \in TaskIds :
    /\ req[t].session_id \notin sessions
    /\ loc[t].seq >= 1
    /\ loc[t].exc = PersistError
    /\ pc[t] = "done"

\* C16: the session_id of every stored task is the id of a stored session.
C16_TaskHasSession ==
  \A t \in DOMAIN tasks : tasks[t].session_id \in sessions

\* A duplex chat frame with a client-supplied session_id created a task, after
\* the other task's ingress had stored that session.
C16_Witness ==
  \E t \in DOMAIN tasks :
    /\ ws[t] = "open"
    /\ wsOut[t] = <<>>
    /\ pc[t] = "acquire"
    /\ tasks[t].session_id \in sessions

\* The acquire of session k returns an endpoint in this step.
AcquireReturns(k) ==
  /\ calls.acq[k].pc # "idle"
  /\ calls'.acq[k].pc = "idle"
  /\ calls'.acq[k].out = "endpoint"

\* A release or a reaper pass is between its delete of pod `podName` and its
\* drop of the cache entry.
BeingDeleted(podName) ==
  \/ \E j \in Keys : calls.rel[j].pc = "deleting" /\ calls.rel[j].entry.endpoint = podName
  \/ calls.reaper.pc = "deleting" /\ calls.reaper.entry.endpoint = podName

\* C17 as stated: acquire never returns an endpoint whose pod a release or a
\* reaper pass in flight is deleting, and the entry a release or a reaper pass
\* drops is the entry it found when it began, not one acquire wrote since.
C17_CacheMutualExclusion ==
  [][\A k \in Keys :
       /\ AcquireReturns(k) => ~BeingDeleted(calls'.acq[k].endpoint)
       /\ (calls.rel[k].pc = "deleting" /\ calls'.rel[k].pc = "idle"
             /\ k \in DOMAIN driver.cache)
            => driver.cache[k] = calls.rel[k].entry
       /\ (calls.reaper.pc = "deleting" /\ calls'.reaper.pc = "loop"
             /\ calls.reaper.key = k /\ k \in DOMAIN driver.cache)
            => driver.cache[k] = calls.reaper.entry]_vars

\* C19 as stated: the cache entry a reaper pass drops has
\* now - lastUsedAt > idle_ttl, the pass leaves the other entries and the other
\* pods as they are, and a driver with idle_ttl = 0 never runs a pass.
C19_ReaperExact ==
  /\ [](driver.constructed /\ driver.idleTtlSeconds = 0 => calls.reaper.pc = "idle")
  /\ [][(calls.reaper.pc # "idle" /\ calls'.reaper # calls.reaper)
          => LET k == calls.reaper.key
                 drops == calls.reaper.pc = "deleting"
             IN /\ (drops /\ k \in DOMAIN driver.cache)
                     => IsIdle(driver.cache[k], calls.reaper.now, driver.idleTtlSeconds)
                /\ \A j \in DOMAIN driver.cache :
                     (~drops \/ j # k)
                       => j \in DOMAIN driver'.cache /\ driver'.cache[j] = driver.cache[j]
                /\ \A n \in DOMAIN cluster.pods :
                     (~drops \/ n # calls.reaper.entry.endpoint)
                       => n \in DOMAIN cluster'.pods /\ cluster'.pods[n] = cluster.pods[n]]_vars

\* C18: an acquire that returns an endpoint returns either the cached endpoint
\* on a health probe that has just succeeded, or its own pod's name on a poll
\* that has just seen the pod in phase Running with its containers ready; the
\* pod of a returned endpoint exists and is in no terminal phase; and a wait
\* that ends without a ready pod ends in an error.
C18_AcquireReturnsHealthy ==
  [][\A k \in Keys :
       /\ AcquireReturns(k)
            => LET e == calls'.acq[k].endpoint
               IN /\ e \in DOMAIN cluster.pods
                  /\ cluster.pods[e].phase \notin {"Failed", "Succeeded"}
                  /\ \/ /\ calls.acq[k].pc = "health"
                        /\ e = calls.acq[k].cached.endpoint
                        /\ e \in cluster.services
                     \/ /\ calls.acq[k].pc = "wait"
                        /\ e = PodNameOf(k)
                  /\ cluster.pods[e].phase = "Running"
                  /\ cluster.pods[e].ready
       /\ (/\ calls.acq[k].pc = "wait"
           /\ calls'.acq[k].pc = "idle"
           /\ ~(/\ PodNameOf(k) \in DOMAIN cluster.pods
                /\ cluster.pods[PodNameOf(k)].phase = "Running"
                /\ cluster.pods[PodNameOf(k)].ready))
            => calls'.acq[k].out = "error"]_vars

\* An acquire has returned the endpoint of its pod, which is cached, running,
\* ready and behind its service.
C18_Witness ==
  LET k == <<"a">>
  IN /\ calls.acq[k].pc = "idle"
     /\ calls.acq[k].out = "endpoint"
     /\ calls.acq[k].endpoint = PodNameOf(k)
     /\ k \in DOMAIN driver.cache
     /\ Serving(cluster, calls.acq[k].endpoint)

\* C20 as stated: two sessions with cached endpoints never have the same
\* pod/service name.
C20_OnePodPerSession ==
  \A j \in DOMAIN driver.cache : \A k \in DOMAIN driver.cache :
    j # k => driver.cache[j].endpoint # driver.cache[k].endpoint

C22_DefaultsThenRequest ==
  \A t \in DOMAIN tasks :
    LET defaults == channels[ingress[t].type]
        skills == JsonParse(tasks[t].skills)
        mcpServers == JsonParse(tasks[t].mcp_servers)
    IN /\ ingress[t].type \in DOMAIN channels
       /\ skills = defaults.skills \o ingress[t].skills
       /\ mcpServers = defaults.mcpServers \o ingress[t].mcpServers
       /\ ingress[t].skills = <<>> => skills = defaults.skills
       /\ defaults.skills = <<>> => skills = ingress[t].skills
       /\ ingress[t].mcpServers = <<>> => mcpServers = defaults.mcpServers
       /\ defaults.mcpServers = <<>> => mcpServers = ingress[t].mcpServers

\* A webhook task whose request repeats a default, running, next to a duplex
\* task with lists of its own.
C22_Witness ==
  /\ "t1" \in DOMAIN tasks /\ "t2" \in DOMAIN tasks
  /\ tasks["t1"].status = "running"
  /\ JsonParse(tasks["t1"].skills) = <<"dsk", "dsk", "sk">>
  /\ JsonParse(tasks["t1"].mcp_servers) = <<"dmcp", "dmcp">>
  /\ JsonParse(tasks["t2"].skills) = <<"dsk", "sk">>
  /\ JsonParse(tasks["t2"].mcp_servers) = <<>>

\* The client of the log route has pulled until a page told it the log is
\* drained (an empty page, or hasMore false), after the stream had ended.
PulledDry ==
  /\ pager.pulls > 0
  /\ pager.id \in DOMAIN tasks
  /\ pc[pager.id] = "done"
  /\ pager.logs = <<>> \/ ~pager.hasMore

\* C23 as stated: a client that starts with after=0 and repeats the query
\* with after = the last seq received has received, in order and once each,
\* the seq values of the task's log from its first entry on: at any moment a
\* prefix 0, 1, ... of them, and all of them once the log is drained.
C23_PullsEveryEntry ==
  pager.pulls > 0
    => /\ \A i \in 1..Len(pager.got) : pager.got[i] = i - 1
       /\ PulledDry => Len(pager.got) = getTaskLogCount(task_logs, pager.id)

\* C24 as stated: hasMore of a page is true exactly when the task has a log
\* entry with a seq greater than the last one of the page; it is false on the
\* page that returns the task's last entry.
C24_HasMoreExact ==
  (pager.id \in DOMAIN tasks /\ pager.logs # <<>>)
    => (pager.hasMore
          <=> \E l \in LogsOf(task_logs, pager.id) : l.seq > pager.logs[Len(pager.logs)])

\* C25 as stated: whatever the limit parameter, a page holds at most 500
\* entries.
C25_PageAtMostCap ==
  Len(pager.logs) <= LimitCap

\* C26 as stated: a stored task with started_at and finished_at both set has
\* started_at <= finished_at.
C26_StartedBeforeFinished ==
  \A t \in DOMAIN tasks :
    \A a \in tasks[t].started_at : \A b \in tasks[t].finished_at : a <= b

\* C27: a read of the worker stream of a task whose status is canceled
\* appends to the log what the same read appends for a running task: every
\* event of the chunk, under the next seq values; no entry is removed.
C27_LateLogsKept ==
  [][\A t \in TaskIds :
       (/\ StoredAcross(t)
        /\ tasks[t].status = "canceled"
        /\ pc[t] = "stream"
        /\ wire'[t] # wire[t])
         => LET k == Len(wire[t]) - Len(wire'[t])
                r == HandleChunkOn(updateTask(tasks, t, [status |-> "running"]), t,
                                   SubSeq(wire[t], 1, k), ws[t], now)
            IN /\ task_logs' = r.logs
               /\ loc'[t].seq = r.seq
               /\ task_logs \subseteq task_logs'
               /\ {l.seq : l \in task_logs' \ task_logs} = loc[t].seq..(loc'[t].seq - 1)]_vars

\* The cancel request of a task was answered, the task is canceled, and its
\* stream has been read to its end with two events in the log.
C27_Witness ==
  \E t \in DOMAIN tasks :
    /\ tasks[t].status = "canceled"
    /\ http = [id |-> t, code |-> 200]
    /\ pc[t] = "stream"
    /\ wire[t] = <<>>
    /\ Len(script[t]) = 2
    /\ Len(Persisted(t)) = 2

\* C28: in the step in which an exception ends a dispatch, an open subscriber
\* is sent, after the events the step had forwarded before the exception,
\* one synthetic error frame with the exception's message and then one
\* synthetic done frame, and nothing else; a subscriber that is closed or
\* absent is sent nothing; and the task, if stored, is failed.
C28_SyntheticErrorDone ==
  [][\A t \in TaskIds :
       (loc[t].exc = "" /\ loc'[t].exc \in StepErrors)
         => /\ t \in DOMAIN tasks' => tasks'[t].status = "failed"
            /\ IF ws[t] = "open"
               THEN LET n == Len(wsOut'[t])
                    IN /\ n >= Len(wsOut[t]) + 2
                       /\ SubSeq(wsOut'[t], 1, Len(wsOut[t])) = wsOut[t]
                       /\ wsOut'[t][n - 1].kind = "synthetic"
                       /\ wsOut'[t][n - 1].type = "error"
                       /\ wsOut'[t][n - 1].content = loc'[t].exc
                       /\ wsOut'[t][n].kind = "synthetic"
                       /\ wsOut'[t][n].type = "done"
                       /\ \A i \in (Len(wsOut[t]) + 1)..(n - 2) : wsOut'[t][i].kind = "event"
               ELSE wsOut'[t] = wsOut[t]]_vars

\* /chat failed for a duplex task: its open subscriber got the two frames.
C28_Witness ==
  \E t \in DOMAIN tasks :
    /\ loc[t].exc = ChatError
    /\ ws[t] = "open"
    /\ tasks[t].status = "failed"
    /\ Len(wsOut[t]) = 3
    /\ wsOut[t][2].type = "error" /\ wsOut[t][2].content = ChatError
    /\ wsOut[t][3].type = "done"

\* C29 as stated: for a task of a chat frame without session_id, the first
\* message sent is session_created with the id of the session the task was
\* created under, every frame of the stream comes after it, no frame follows
\* a done frame, and when the dispatch has ended with the subscriber open the
\* last frame sent is done.
C29_SessionCreatedFirstDoneLast ==
  \A t \in TaskIds :
    (wsOut[t] # <<>> /\ wsOut[t][1].kind = "session_created")
      => /\ wsOut[t][1].session_id # Null
         /\ wsOut[t][1].session_id = req[t].session_id
         /\ t \in DOMAIN tasks => tasks[t].session_id = wsOut[t][1].session_id
         /\ \A i \in 2..Len(wsOut[t]) : wsOut[t][i].kind # "session_created"
         /\ \A i \in 1..(Len(wsOut[t]) - 1) : wsOut[t][i].type # "done"
         /\ (pc[t] = "done" /\ ws[t] = "open") => wsOut[t][Len(wsOut[t])].type = "done"

\* The place of an await point of dispatch in the order of its steps.
StepRank(p) ==
  CASE p = "idle" -> 0 [] p = "acquire" -> 1 [] p = "prepare" -> 2 [] p = "chat" -> 3
    [] p = "stream" -> 4 [] p = "deliver" -> 5 [] p = "push" -> 6 [] p = "done" -> 7

\* The stored task has a skill or a bridge config.
StoredListsNonEmpty(t) ==
  JsonParse(tasks[t].skills) # <<>> \/ JsonParse(tasks[t].mcp_servers) # <<>>

StreamEnds(t) ==
  /\ \/ pc[t] = "stream" /\ wire[t] = <<>>
     \/ pc[t] = "chat"
  /\ pc'[t] \in {"deliver", "push", "done"}
  /\ loc'[t].exc = ""

\* C31 as stated: when the worker stream ends while the status is running,
\* the task becomes completed with result = the accumulated text (NULL if
\* empty) and finished_at set; when it ends under any other status, no field
\* of the task changes.
C31_StreamEndFallback ==
  [][\A t \in TaskIds :
       (StoredAcross(t) /\ StreamEnds(t))
         => IF tasks[t].status = "running"
            THEN /\ tasks'[t].status = "completed"
                 /\ tasks'[t].result = OrNull(loc[t].lastResult)
                 /\ tasks'[t].finished_at = {now}
            ELSE tasks'[t] = tasks[t]]_vars

\* The index of the last done frame of a stream, 0 if it has none.
LastDone(fs) ==
  LET at == {i \in 1..Len(fs) : fs[i].type = "done"}
  IN IF at = {} THEN 0 ELSE CHOOSE i \in at : \A j \in at : j <= i

\* The contents of the text frames among the first n frames, concatenated.
RECURSIVE TextOf(_, _)
TextOf(fs, n) ==
  IF n = 0 THEN ""
  ELSE TextOf(fs, n - 1) \o (IF fs[n].type = "text" THEN fs[n].content ELSE "")

\* C32 as stated: once the body has been read and the task is completed with
\* a done event handled, result is the concatenation, in order, of the
\* contents of the text events the worker sent before that done (NULL when
\* that is empty), events of other types adding nothing; and the text frames
\* forwarded before the done frame to a subscriber that stayed open
\* concatenate to the same string.
C32_ResultIsTextBeforeDone ==
  \A t \in DOMAIN tasks :
    (/\ pc[t] = "done" /\ loc[t].exc = ""
     /\ tasks[t].status = "completed"
     /\ \E l \in LogsOf(task_logs, t) : l.type = "done")
      => /\ tasks[t].result = OrNull(TextOf(script[t], LastDone(script[t])))
         /\ ws[t] = "open"
              => tasks[t].result = OrNull(TextOf(wsOut[t], LastDone(wsOut[t])))

\* The acquire of session k leaves the await point `at` in this step.
AcquireLeaves(k, at) == calls.acq[k].pc = at /\ calls'.acq[k].pc # at

\* C33: reconcilePod goes on to create a pod exactly when its read found no
\* pod, or found one in a terminal phase, which it deletes (pod and service)
\* first; a Running or Pending pod is kept and the acquire goes on to the
\* service; the create finds the name free and creates one pod; a pod is
\* without its service only between an acquire's create of the pod and its
\* create of the service, and nothing else creates either; and an acquire
\* that returns from the wait returns its pod's name, the pod and the service
\* exist, and the cache holds the endpoint again.
C33_ReconcileCreatesWhenMissing ==
  /\ [](\A podName \in DOMAIN cluster.pods :
          podName \notin cluster.services
            => \E k \in Keys : /\ PodNameOf(k) = podName
                               /\ calls.acq[k].pc \in {"readSvc", "createSvc"})
  /\ [][\A k \in Keys :
          LET podName == PodNameOf(k)
              found == podName \in DOMAIN cluster.pods
              alive == found /\ cluster.pods[podName].phase \in {"Running", "Pending"}
          IN /\ AcquireLeaves(k, "readPod")
                  => /\ cluster' = cluster
                     /\ calls'.acq[k].pc =
                          (IF ~found THEN "createPod"
                           ELSE IF alive THEN "readSvc" ELSE "deleteOld")
             /\ AcquireLeaves(k, "deleteOld")
                  => /\ calls'.acq[k].pc = "createPod"
                     /\ podName \notin DOMAIN cluster'.pods
                     /\ podName \notin cluster'.services
             /\ (calls'.acq[k].pc = "createPod" /\ calls.acq[k].pc # "createPod")
                  => calls.acq[k].pc \in {"readPod", "deleteOld"}
             /\ AcquireLeaves(k, "createPod")
                  => /\ ~found
                     /\ podName \in DOMAIN cluster'.pods
                     /\ calls'.acq[k].pc = "readSvc"
             /\ (AcquireLeaves(k, "wait") /\ calls'.acq[k].out = "endpoint")
                  => /\ calls'.acq[k].endpoint = podName
                     /\ found /\ podName \in cluster.services
                     /\ k \in DOMAIN driver'.cache
                     /\ driver'.cache[k].endpoint = podName]_vars
  /\ [][/\ (DOMAIN cluster'.pods \ DOMAIN cluster.pods # {})
             => \E k \in Keys : AcquireLeaves(k, "createPod")
        /\ (cluster'.services \ cluster.services # {})
             => \E k \in Keys : AcquireLeaves(k, "createSvc")]_vars

\* A reaper pass has deleted the pod of session a and dropped its entry, and
\* an acquire that began afterwards has created the pod and the service anew
\* and waits on the pod, which is ready.
C33_Witness ==
  LET k == <<"a">>
  IN /\ calls.reaper.pc = "loop"
     /\ k \in calls.reaper.visited
     /\ k \notin DOMAIN driver.cache
     /\ calls.acq[k].pc = "wait"
     /\ Serving(cluster, PodNameOf(k))

\* C34 as stated: the write of canceled by a cancel request that waited for
\* the worker takes effect only on a task that is pending, running or
\* input_required at that moment; no task goes from completed or failed to
\* canceled.
C34_CancelWriteGuarded ==
  [][\A t \in TaskIds :
       (StoredAcross(t) /\ tasks'[t].status = "canceled" /\ tasks[t].status # "canceled")
         => tasks[t].status \in CancelableStatuses]_vars

\* C35 as stated: a task canceled while pending, its dispatch still waiting
\* for acquire, is never set to running afterwards, and its dispatch sends
\* neither /prepare nor /chat to a worker.
C35_CanceledNeverStarts ==
  [][\A t \in TaskIds :
       (StoredAcross(t) /\ tasks[t].status = "canceled" /\ pc[t] = "acquire")
         => /\ tasks'[t].status # "running"
            /\ pc'[t] \notin {"prepare", "chat"}]_vars

\* C36 as stated: of two acquires of one session in flight together, neither
\* ends in an error (the cluster of this specification fails nothing by
\* itself), and two that have returned have returned the same endpoint.
C36_TwinAcquiresBothSucceed ==
  \A k \in Keys :
    /\ \A c \in AcquireCalls : calls[c][k].out # "error"
    /\ (calls.acq[k].out = "endpoint" /\ calls.acq2[k].out = "endpoint")
         => calls.acq[k].endpoint = calls.acq2[k].endpoint

\* Task t has acquired the endpoint of its session and its worker stream has
\* not ended: it awaits /prepare, /chat or a read of the body.
Borrowing(t) == pc[t] \in {"prepare", "chat", "stream"}

\* C37 as stated: a reaper pass never deletes the pod of a session while a
\* task of that session is between its acquire and the end of its stream.
C37_BorrowedNotReaped ==
  [][(calls.reaper.pc = "deleting" /\ calls'.reaper.pc = "loop")
       => \A t \in TaskIds :
            Borrowing(t) => SessionKey(req[t].session_id) # calls.reaper.key]_vars

\* C38 as stated: the step that answers a rejected frame sends the error
\* frame and nothing else, and leaves the store as it was: no session, no
\* task and no log entry is created, and no session_created frame is sent.
C38_RejectedLeavesStore ==
  [][\A t \in TaskIds :
       (\E i \in (Len(wsOut[t]) + 1)..Len(wsOut'[t]) : wsOut'[t][i].kind = "reject")
         => /\ sessions' = sessions
            /\ tasks' = tasks
            /\ task_logs' = task_logs
            /\ \A i \in (Len(wsOut[t]) + 1)..Len(wsOut'[t]) :
                 wsOut'[t][i].kind # "session_created"
            /\ Len(wsOut'[t]) = Len(wsOut[t]) + 1]_vars

\* The dispatch of t has left handleWorkerStream or its catch block.
Returning(t) == pc[t] \in {"deliver", "push", "done"}

\* C39: a dispatch that has begun (t1, the task that is dispatched here) gets
\* past its stream and returns with the task, if it is stored, in a terminal
\* status, and at no moment after handleWorkerStream or the catch block is
\* the task pending or running: dispatch never returns leaving it so.
C39_DispatchTerminates ==
  /\ \A t \in {"t1"} :
        (pc[t] = "acquire") ~>
          (pc[t] = "done" /\ (t \in DOMAIN tasks => tasks[t].status \in TerminalStatuses))
  /\ [](\A t \in DOMAIN tasks : Returning(t) => tasks[t].status \in TerminalStatuses)

\* The stream of a task ended without a done or an error event, and the
\* dispatch has returned with the task completed.
C39_Witness ==
  \E t \in DOMAIN tasks :
    /\ pc[t] = "done"
    /\ loc[t].exc = ""
    /\ Len(script[t]) = 2
    /\ \A l \in LogsOf(task_logs, t) : l.type = "text"
    /\ tasks[t].status = "completed"
    /\ tasks[t].result = "aa"

====
